---- MODULE Spec2Model ----
(***************************************************************************)
(* Model of the rule-application core of pysh2 (core/processor.py and      *)
(* core/stream_processor.py): rule trees, the Result and Error trees, the  *)
(* apply method of every rule, the registry of named rules, the queries on *)
(* Results, and the Lexer built on them (core/lexer.py).                   *)
(*                                                                         *)
(* A rule application is a pure function of the rule and the State, so it  *)
(* is modelled by recursive operators that return an outcome:              *)
(*   [kind |-> "ok", result, state]   the ResultAndState returned          *)
(*   [kind |-> "error", error]        the Error raised                     *)
(*   [kind |-> "hang"]                the call never returns               *)
(*   [kind |-> "uncaught", exception] an exception that is not an Error    *)
(* There is one state machine per part: Spec constructs a rule tree and    *)
(* applies it to inputs, RefSpec calls a registry whose rules refer to one *)
(* another, WhereSpec builds a Result and queries it, LexSpec builds a     *)
(* Lexer and calls it and its rules.                                       *)
(***************************************************************************)
EXTENDS Naturals, Sequences, FiniteSets, TLC

VARIABLES processor, state_value, ret

vars == <<processor, state_value, ret>>

(* ------------------------------ bounds -------------------------------- *)

\* Nesting depth of the rule trees that are constructed.
MaxDepth == 2

\* Length of the input streams that are applied.
MaxLen == 3

\* The items a stream is made of.
Items == {"x", "y", "z"}

\* The items the Literal rules match; no Literal matches "z".
LiteralValues == {"x", "y"}

\* python's None (rule_name, msg, value).
None == "None"

\* All streams of at most n items.
RECURSIVE SeqsUpTo(_)
SeqsUpTo(n) ==
  IF n = 0 THEN {<<>>}
  ELSE LET shorter == SeqsUpTo(n - 1)
       IN shorter \cup {Append(s, i) : s \in {t \in shorter : Len(t) = n - 1}, i \in Items}

Inputs == SeqsUpTo(MaxLen)

(* ------------------------- Error, Result, State ----------------------- *)

Error(rule_name, msg, children) ==
  [rule_name |-> rule_name, msg |-> msg, children |-> children]

Result(rule_name, value, children) ==
  [rule_name |-> rule_name, value |-> value, children |-> children]

\* Error.with_rule_name leaving the Error as it is.
Error_keep_rule_name(self, rule_name) == self

Error_with_rule_name(self, rule_name) ==
  Error(rule_name, self.msg, self.children)

Result_with_rule_name(self, rule_name) ==
  Result(rule_name, self.value, self.children)

\* core/stream_processor.py Stream: the remaining items.
Stream_empty(values) == Len(values) = 0

Stream_head(values) == values[1]

\* A tail that drops the last item instead of the head.
Stream_tail_DropLast(values) == SubSeq(values, 1, Len(values) - 1)

Stream_tail(values) == SubSeq(values, 2, Len(values))

\* core/lexer.py Position and _Item: a character of the text and the place
\* it stands at.
Position(line, column) == [line |-> line, column |-> column]

\* Position.after for a value of one character.
Position_after(self, c) ==
  IF c = "\n"
  THEN Position(self.line + 1, 0)
  ELSE Position(self.line, self.column + 1)

Item(value, position) == [value |-> value, position |-> position]

\* repr of an _Item, as the dataclasses print it.
Item_repr(self) ==
  "_Item(value='" \o self.value \o "', position=Position(line="
    \o ToString(self.position.line) \o ", column="
    \o ToString(self.position.column) \o "))"

\* The for loop of load_state_value from character number i on: the items
\* of a lexer.StateValue.
RECURSIVE load_items(_, _, _, _)
load_items(s, i, items, position) ==
  IF i > Len(s)
  THEN items
  ELSE load_items(s, i + 1, Append(items, Item(s[i], position)),
                  Position_after(position, s[i]))

load_state_value(s) == load_items(s, 1, <<>>, Position(0, 0))

\* processor.State. `value` holds the items of the stream and `class` the
\* class of the stream object, stream_processor.Stream or its subclass
\* lexer.StateValue. `stack` is the interpreter's call stack as far as it
\* matters: the (rule name, stream) pairs of the apply_rule_to_state calls
\* that have not returned yet.
StateOf(proc, class, value) ==
  [processor |-> proc, value |-> value, class |-> class, stack |-> {}]

\* A State over a stream_processor.Stream.
State(proc, value) == StateOf(proc, "Stream", value)

\* state.with_value(state.value.tail) and the like: the new stream has the
\* class of the old one (Stream.tail builds it with self.__class__).
State_with_value(self, value) == [self EXCEPT !.value = value]

\* lexer.StateValue.tail reads super().tail._values, an attribute a Stream
\* does not have (its field is `values`): AttributeError.
StateValue_tail_raises(state) == state.class = "StateValue"

\* lexer.StateValue.__repr__ reads self._values unless the stream is empty:
\* formatting such a state into a message raises AttributeError.
StateValue_repr_raises(state) ==
  state.class = "StateValue" /\ ~Stream_empty(state.value)

(* ------------------------------ outcomes ------------------------------ *)

Ok(result, state) == [kind |-> "ok", result |-> result, state |-> state]

Raise(error) == [kind |-> "error", error |-> error]

\* The call does not return: an endless loop of the interpreter.
Hang == [kind |-> "hang"]

\* The call is left by an exception that is not a processor.Error, which no
\* `except Error` clause of the rules catches.
Uncaught(exception) == [kind |-> "uncaught", exception |-> exception]

ResultAndState_with_rule_name(self, rule_name) ==
  Ok(Result_with_rule_name(self.result, rule_name), self.state)

as_child_result(self) ==
  Ok(Result(None, None, <<self.result>>), self.state)

\* A call that returns a value and no state.
Returns(value) == [kind |-> "ok", value |-> value]

(* --------------------------- queries on Results ----------------------- *)

\* The predicates a Result is queried with.
rule_name_is(rule_name) == [pred |-> "rule_name_is", rule_name |-> rule_name]

rule_name_in(rule_names) == [pred |-> "rule_name_in", rule_names |-> rule_names]

has_value == [pred |-> "has_value"]

has_rule_name == [pred |-> "has_rule_name"]

\* pred(result).
Satisfies(result, pred) ==
  CASE pred.pred = "rule_name_is" -> result.rule_name = pred.rule_name
    [] pred.pred = "rule_name_in" -> result.rule_name \in pred.rule_names
    [] pred.pred = "has_value" -> result.value # None
    [] pred.pred = "has_rule_name" -> result.rule_name # None

RECURSIVE where(_, _)

RECURSIVE where_children(_, _)

\* The loops of Result.where_children from child number i on.
RECURSIVE where_children_loop(_, _, _, _)
where_children_loop(children, i, child_results, pred) ==
  IF i > Len(children)
  THEN child_results
  ELSE where_children_loop(children, i + 1,
                           child_results \o where(children[i], pred).children,
                           pred)

\* Result.where going on below a node that satisfies pred.
where_Descending(self, pred) ==
  IF Satisfies(self, pred)
  THEN Result(None, None, <<self>> \o where_children(self, pred).children)
  ELSE where_children(self, pred)

where(self, pred) ==
  IF Satisfies(self, pred)
  THEN Result(None, None, <<self>>)
  ELSE where_children(self, pred)

where_children(self, pred) ==
  Result(None, None, where_children_loop(self.children, 1, <<>>, pred))

Result_skip(self) == Result(None, None, self.children)

\* Result.where_n without the comparison of the count.
where_n_Unchecked(self, n, pred) == Returns(where(self, pred))

\* Result.where_n. The message also prints the two Results.
where_n(self, n, pred) ==
  LET result == where(self, pred)
  IN IF Len(result.children) # n
     THEN Raise(Error(None,
                      "result count mismatch expected " \o ToString(n)
                        \o " got " \o ToString(Len(result.children)),
                      <<>>))
     ELSE Returns(result)

\* Result.where_one: children[0] of what where_n(1, pred) returns.
where_one(self, pred) ==
  LET result == where_n(self, 1, pred)
  IN IF result.kind = "ok"
     THEN IF result.value.children = <<>>
          THEN Uncaught("IndexError")
          ELSE Returns(result.value.children[1])
     ELSE result

(* -------------------------------- rules ------------------------------- *)

Literal(value) == [type |-> "Literal", value |-> value]

And(children) == [type |-> "And", children |-> children]

Or(children) == [type |-> "Or", children |-> children]

ZeroOrMore(child) == [type |-> "ZeroOrMore", child |-> child]

OneOrMore(child) == [type |-> "OneOrMore", child |-> child]

ZeroOrOne(child) == [type |-> "ZeroOrOne", child |-> child]

UntilEmpty(child) == [type |-> "UntilEmpty", child |-> child]

Ref(rule_name) == [type |-> "Ref", rule_name |-> rule_name]

\* core/lexer.py Literal, Class and Not, rules over streams of _Items.
lexer_Literal(value) == [type |-> "lexer.Literal", value |-> value]

lexer_Class(min, max) == [type |-> "lexer.Class", min |-> min, max |-> max]

Not(child) == [type |-> "Not", child |-> child]

\* The rules of the parser module over a stream of Tokens.
parser_Literal(value) == [type |-> "parser.Literal", value |-> value]

parser_Any == [type |-> "parser.Any"]

RECURSIVE Apply(_, _)

RECURSIVE apply_rule_to_state(_, _, _)

\* Ref.apply returning what apply_rule_to_state returns and raises, with no
\* Result or Error of its own around it.
ApplyRef_Unwrapped(self, state) ==
  apply_rule_to_state(state.processor, self.rule_name, state)

\* Ref.apply: the name is looked up in the processor the state carries.
ApplyRef(self, state) ==
  LET applied == apply_rule_to_state(state.processor, self.rule_name, state)
  IN CASE applied.kind = "ok" -> as_child_result(applied)
       [] applied.kind = "error" -> Raise(Error(None, None, <<applied.error>>))
       [] OTHER -> applied

\* HeadRule.apply with Literal.pred; state.value.head raises on an empty stream.
ApplyLiteral(self, state) ==
  IF Stream_empty(state.value)
  THEN Raise(Error(None, "stream empty", <<>>))
  ELSE IF self.value = Stream_head(state.value)
       THEN Ok(Result(None, Stream_head(state.value), <<>>),
               State_with_value(state, Stream_tail(state.value)))
       ELSE Raise(Error(None,
                        self.value \o " failed to match head " \o Stream_head(state.value),
                        <<>>))

\* The code point of a character, which python's <= on strings of one
\* character compares.
ord(c) ==
  CASE c = "\t" -> 9
    [] c = "\n" -> 10
    [] c = " " -> 32
    [] c = "!" -> 33
    [] c = "\"" -> 34
    [] c = "(" -> 40
    [] c = ")" -> 41
    [] c = "*" -> 42
    [] c = "+" -> 43
    [] c = "-" -> 45
    [] c = "0" -> 48
    [] c = "9" -> 57
    [] c = ";" -> 59
    [] c = "=" -> 61
    [] c = ">" -> 62
    [] c = "?" -> 63
    [] c = "A" -> 65
    [] c = "Z" -> 90
    [] c = "[" -> 91
    [] c = "\\" -> 92
    [] c = "]" -> 93
    [] c = "^" -> 94
    [] c = "_" -> 95
    [] c = "a" -> 97
    [] c = "b" -> 98
    [] c = "c" -> 99
    [] c = "e" -> 101
    [] c = "l" -> 108
    [] c = "r" -> 114
    [] c = "u" -> 117
    [] c = "w" -> 119
    [] c = "x" -> 120
    [] c = "y" -> 121
    [] c = "z" -> 122
    [] c = "|" -> 124

lexer_Literal_pred(self, head) == self.value = head.value

lexer_Class_pred(self, head) ==
  ord(self.min) <= ord(head.value) /\ ord(head.value) <= ord(self.max)

lexer_repr(self) ==
  IF self.type = "lexer.Class"
  THEN "[" \o self.min \o "-" \o self.max \o "]"
  ELSE self.value

\* self.pred(head): the pred of the class of the rule.
lexer_pred(self, head) ==
  IF self.type = "lexer.Class"
  THEN lexer_Class_pred(self, head)
  ELSE lexer_Literal_pred(self, head)

\* stream_processor.HeadRule.apply with the result of lexer.HeadRule and
\* the pred of the subclass. The tail is taken after the result is built.
lexer_HeadRule_apply(self, state) ==
  IF Stream_empty(state.value)
  THEN Raise(Error(None, "stream empty", <<>>))
  ELSE LET head == Stream_head(state.value)
       IN IF lexer_pred(self, head)
          THEN IF StateValue_tail_raises(state)
               THEN Uncaught("AttributeError")
               ELSE Ok(Result(None, head.value, <<>>),
                       State_with_value(state, Stream_tail(state.value)))
          ELSE Raise(Error(None,
                           lexer_repr(self) \o " failed to match head " \o Item_repr(head),
                           <<>>))

ApplyLexerLiteral(self, state) == lexer_HeadRule_apply(self, state)

ApplyLexerClass(self, state) == lexer_HeadRule_apply(self, state)

\* Not.apply. The message of the Error raised when the child applies formats
\* the child's ResultAndState, state included.
ApplyNot(self, state) ==
  IF Stream_empty(state.value)
  THEN Raise(Error(None, "state empty", <<>>))
  ELSE LET child_result == Apply(self.child, state)
       IN CASE child_result.kind = "error" ->
                 IF StateValue_tail_raises(state)
                 THEN Uncaught("AttributeError")
                 ELSE Ok(Result(None, Stream_head(state.value).value, <<>>),
                         State_with_value(state, Stream_tail(state.value)))
            [] child_result.kind = "ok" ->
                 IF StateValue_repr_raises(child_result.state)
                 THEN Uncaught("AttributeError")
                 ELSE Raise(Error(None, "child applied", <<>>))
            [] OTHER -> child_result

\* repr of a Token, as the dataclass prints it.
Token_repr(self) ==
  "Token(type='" \o self.type \o "', value='" \o self.value \o "')"

\* parser.Literal.apply: the head Token matches when its type is the value
\* of the rule. The Result has one child, named with the type of the Token
\* and carrying the Token; the Token carried is written as its value.
ApplyParserLiteral(self, state) ==
  IF Stream_empty(state.value)
  THEN Raise(Error(None, "stream empty", <<>>))
  ELSE LET head == Stream_head(state.value)
       IN IF head.type = self.value
          THEN Ok(Result(None, None, <<Result(head.type, head.value, <<>>)>>),
                  State_with_value(state, Stream_tail(state.value)))
          ELSE Raise(Error(None,
                           self.value \o " failed to match head " \o Token_repr(head),
                           <<>>))

\* parser.Any.apply: every head Token matches; the Result carries it.
ApplyParserAny(self, state) ==
  IF Stream_empty(state.value)
  THEN Raise(Error(None, "stream empty", <<>>))
  ELSE Ok(Result(None, Stream_head(state.value).value, <<>>),
          State_with_value(state, Stream_tail(state.value)))

\* The for loop of And.apply from child number i on. A child's Error is not
\* caught, so it leaves And.apply as it is.
RECURSIVE AndLoop(_, _, _, _)
AndLoop(children, i, child_results, child_state) ==
  IF i > Len(children)
  THEN Ok(Result(None, None, child_results), child_state)
  ELSE LET child_result == Apply(children[i], child_state)
       IN IF child_result.kind = "ok"
          THEN AndLoop(children, i + 1,
                       Append(child_results, child_result.result),
                       child_result.state)
          ELSE child_result

\* And.apply giving every child the state And.apply was given.
RECURSIVE AndLoop_SameState(_, _, _, _)
AndLoop_SameState(children, i, child_results, state) ==
  IF i > Len(children)
  THEN Ok(Result(None, None, child_results), state)
  ELSE LET child_result == Apply(children[i], state)
       IN IF child_result.kind = "ok"
          THEN AndLoop_SameState(children, i + 1,
                                 Append(child_results, child_result.result), state)
          ELSE child_result

ApplyAnd_SameState(self, state) == AndLoop_SameState(self.children, 1, <<>>, state)

\* And.apply catching a child's Error and raising a new one around it.
ApplyAnd_Nested(self, state) ==
  LET applied == AndLoop(self.children, 1, <<>>, state)
  IN IF applied.kind = "error"
     THEN Raise(Error(None, None, <<applied.error>>))
     ELSE applied

ApplyAnd(self, state) == AndLoop(self.children, 1, <<>>, state)

\* The for loop of Or.apply from child number i on.
RECURSIVE OrLoop(_, _, _, _)
OrLoop(children, i, child_errors, state) ==
  IF i > Len(children)
  THEN Raise(Error(None, None, child_errors))
  ELSE LET child_result == Apply(children[i], state)
       IN CASE child_result.kind = "ok" -> as_child_result(child_result)
            [] child_result.kind = "error" ->
                 OrLoop(children, i + 1, Append(child_errors, child_result.error), state)
            [] OTHER -> child_result

\* Or.apply without the early return: the last success wins.
RECURSIVE OrLoop_LastSuccess(_, _, _, _, _)
OrLoop_LastSuccess(children, i, child_errors, found, state) ==
  IF i > Len(children)
  THEN IF found.kind = "ok" THEN found ELSE Raise(Error(None, None, child_errors))
  ELSE LET child_result == Apply(children[i], state)
       IN CASE child_result.kind = "ok" ->
                 OrLoop_LastSuccess(children, i + 1, child_errors,
                                    as_child_result(child_result), state)
            [] child_result.kind = "error" ->
                 OrLoop_LastSuccess(children, i + 1,
                                    Append(child_errors, child_result.error), found, state)
            [] OTHER -> child_result

ApplyOr_LastSuccess(self, state) ==
  OrLoop_LastSuccess(self.children, 1, <<>>, Hang, state)

\* Or.apply keeping only the Error of the last alternative.
ApplyOr_LastError(self, state) ==
  LET applied == OrLoop(self.children, 1, <<>>, state)
  IN IF applied.kind = "error" /\ applied.error.children # <<>>
     THEN Raise(Error(None, None,
                      <<applied.error.children[Len(applied.error.children)]>>))
     ELSE applied

ApplyOr(self, state) == OrLoop(self.children, 1, <<>>, state)

\* The `while True` loop shared by ZeroOrMore.apply and OneOrMore.apply. The
\* child is a pure function of the state, so once it succeeds and returns a
\* state equal to the one it was given, every later iteration repeats that
\* application and the loop never ends.
RECURSIVE RepeatLoop(_, _, _)
RepeatLoop(child, child_results, child_state) ==
  LET child_result == Apply(child, child_state)
  IN CASE child_result.kind = "ok" ->
            IF child_result.state = child_state
            THEN Hang
            ELSE RepeatLoop(child,
                            Append(child_results, child_result.result),
                            child_result.state)
       [] child_result.kind = "error" ->
            Ok(Result(None, None, child_results), child_state)
       [] OTHER -> child_result

\* ZeroOrMore.apply with the first application outside the try block.
ApplyZeroOrMore_FirstRequired(self, state) ==
  LET child_result == Apply(self.child, state)
  IN IF child_result.kind = "ok"
     THEN RepeatLoop(self.child, <<child_result.result>>, child_result.state)
     ELSE child_result

\* The loop of ZeroOrMore.apply and OneOrMore.apply with a progress check:
\* it ends when the child returns the state it was given.
RECURSIVE RepeatLoop_Guarded(_, _, _)
RepeatLoop_Guarded(child, child_results, child_state) ==
  LET child_result == Apply(child, child_state)
  IN CASE child_result.kind = "ok" ->
            IF child_result.state = child_state
            THEN Ok(Result(None, None, child_results), child_state)
            ELSE RepeatLoop_Guarded(child,
                                    Append(child_results, child_result.result),
                                    child_result.state)
       [] child_result.kind = "error" ->
            Ok(Result(None, None, child_results), child_state)
       [] OTHER -> child_result

\* ZeroOrMore.apply with that progress check.
ApplyZeroOrMore_Guarded(self, state) == RepeatLoop_Guarded(self.child, <<>>, state)

ApplyZeroOrMore(self, state) == RepeatLoop(self.child, <<>>, state)

\* OneOrMore.apply without the loop after the first application.
ApplyOneOrMore_Once(self, state) ==
  LET child_result == Apply(self.child, state)
  IN IF child_result.kind = "ok"
     THEN Ok(Result(None, None, <<child_result.result>>), child_result.state)
     ELSE child_result

\* OneOrMore.apply catching the first Error and raising a new one around it.
ApplyOneOrMore_Nested(self, state) ==
  LET child_result == Apply(self.child, state)
  IN CASE child_result.kind = "ok" ->
            RepeatLoop(self.child, <<child_result.result>>, child_result.state)
       [] child_result.kind = "error" ->
            Raise(Error(None, None, <<child_result.error>>))
       [] OTHER -> child_result

ApplyOneOrMore(self, state) ==
  LET child_result == Apply(self.child, state)
  IN IF child_result.kind = "ok"
     THEN RepeatLoop(self.child, <<child_result.result>>, child_result.state)
     ELSE child_result

\* ZeroOrOne.apply returning the child's ResultAndState without as_child_result.
ApplyZeroOrOne_Unwrapped(self, state) ==
  LET child_result == Apply(self.child, state)
  IN CASE child_result.kind = "ok" -> child_result
       [] child_result.kind = "error" -> Ok(Result(None, None, <<>>), state)
       [] OTHER -> child_result

ApplyZeroOrOne(self, state) ==
  LET child_result == Apply(self.child, state)
  IN CASE child_result.kind = "ok" -> as_child_result(child_result)
       [] child_result.kind = "error" -> Ok(Result(None, None, <<>>), state)
       [] OTHER -> child_result

\* The `while not child_state.value.empty` loop of UntilEmpty.apply. The
\* message of the 'not advancing' Error formats child_state.
RECURSIVE UntilEmptyLoop(_, _, _)
UntilEmptyLoop(child, child_results, child_state) ==
  IF Stream_empty(child_state.value)
  THEN Ok(Result(None, None, child_results), child_state)
  ELSE LET child_result == Apply(child, child_state)
       IN IF child_result.kind = "ok"
          THEN IF child_state = child_result.state
               THEN IF StateValue_repr_raises(child_state)
                    THEN Uncaught("AttributeError")
                    ELSE Raise(Error(None, "not advancing", <<>>))
               ELSE UntilEmptyLoop(child,
                                   Append(child_results, child_result.result),
                                   child_result.state)
          ELSE child_result

\* UntilEmpty.apply without the comparison of the states: a child that
\* succeeds without consuming is applied again and again.
RECURSIVE UntilEmptyLoop_NoGuard(_, _, _)
UntilEmptyLoop_NoGuard(child, child_results, child_state) ==
  IF Stream_empty(child_state.value)
  THEN Ok(Result(None, None, child_results), child_state)
  ELSE LET child_result == Apply(child, child_state)
       IN IF child_result.kind = "ok"
          THEN IF child_state = child_result.state
               THEN Hang
               ELSE UntilEmptyLoop_NoGuard(child,
                                           Append(child_results, child_result.result),
                                           child_result.state)
          ELSE child_result

ApplyUntilEmpty_NoGuard(self, state) == UntilEmptyLoop_NoGuard(self.child, <<>>, state)

\* UntilEmpty.apply testing for the empty state after the application (do-while).
ApplyUntilEmpty_TestAfter(self, state) ==
  LET child_result == Apply(self.child, state)
  IN IF child_result.kind = "ok"
     THEN IF child_result.state = state
          THEN Raise(Error(None, "not advancing", <<>>))
          ELSE UntilEmptyLoop(self.child, <<child_result.result>>, child_result.state)
     ELSE child_result

ApplyUntilEmpty(self, state) == UntilEmptyLoop(self.child, <<>>, state)

\* Rule.apply: dispatch on the class of the rule.
Apply(rule, state) ==
  CASE rule.type = "Literal" -> ApplyLiteral(rule, state)
    [] rule.type = "And" -> ApplyAnd(rule, state)
    [] rule.type = "Or" -> ApplyOr(rule, state)
    [] rule.type = "ZeroOrMore" -> ApplyZeroOrMore(rule, state)
    [] rule.type = "OneOrMore" -> ApplyOneOrMore(rule, state)
    [] rule.type = "ZeroOrOne" -> ApplyZeroOrOne(rule, state)
    [] rule.type = "UntilEmpty" -> ApplyUntilEmpty(rule, state)
    [] rule.type = "Ref" -> ApplyRef(rule, state)
    [] rule.type = "lexer.Literal" -> ApplyLexerLiteral(rule, state)
    [] rule.type = "lexer.Class" -> ApplyLexerClass(rule, state)
    [] rule.type = "Not" -> ApplyNot(rule, state)
    [] rule.type = "parser.Literal" -> ApplyParserLiteral(rule, state)
    [] rule.type = "parser.Any" -> ApplyParserAny(rule, state)

(* ------------------------------ Processor ----------------------------- *)

Processor(root_rule_name, rules) ==
  [root_rule_name |-> root_rule_name, rules |-> rules]

\* Processor.apply_rule_to_state without the test `rule_name not in
\* self.rules`: the subscription self.rules[rule_name] raises KeyError.
apply_rule_to_state_Unchecked(self, rule_name, state) ==
  IF rule_name \notin DOMAIN self.rules
  THEN Uncaught("KeyError")
  ELSE IF <<rule_name, state.value>> \in state.stack
  THEN Uncaught("RecursionError")
  ELSE LET called == [state EXCEPT !.stack = @ \cup {<<rule_name, state.value>>}]
           applied == Apply(self.rules[rule_name], called)
       IN CASE applied.kind = "ok" ->
                 ResultAndState_with_rule_name(
                   Ok(applied.result, [applied.state EXCEPT !.stack = state.stack]),
                   rule_name)
            [] applied.kind = "error" -> Raise(Error_with_rule_name(applied.error, rule_name))
            [] OTHER -> applied

\* Processor.apply_rule_to_state. The rule is a pure function of the state,
\* so a call for a name and a stream made while a call for the same name and
\* stream has not returned recurses without end: python raises
\* RecursionError, which is not an Error.
apply_rule_to_state(self, rule_name, state) ==
  IF rule_name \notin DOMAIN self.rules
  THEN Raise(Error(None, "unknown rule " \o rule_name, <<>>))
  ELSE IF <<rule_name, state.value>> \in state.stack
  THEN Uncaught("RecursionError")
  ELSE LET called == [state EXCEPT !.stack = @ \cup {<<rule_name, state.value>>}]
           applied == Apply(self.rules[rule_name], called)
       IN CASE applied.kind = "ok" ->
                 ResultAndState_with_rule_name(
                   Ok(applied.result, [applied.state EXCEPT !.stack = state.stack]),
                   rule_name)
            [] applied.kind = "error" -> Raise(Error_with_rule_name(applied.error, rule_name))
            [] OTHER -> applied

apply_rule(self, rule_name, value) ==
  apply_rule_to_state(self, rule_name, State(self, value))

apply_root(self, value) == apply_rule(self, self.root_rule_name, value)

(* -------------------------------- Lexer ------------------------------- *)

Token(type, value) == [type |-> type, value |-> value]

ROOT_RULE_NAME == "_root"

RULES_RULE_NAME == "_rules"

\* Lexer.__init__. `rules` is the mapping in the order of its keys, a
\* sequence of <<name, rule>> pairs with distinct names; the two rules of the
\* Lexer are stored after the copy of the mapping is made.
Lexer(rules) ==
  LET keys == [i \in DOMAIN rules |-> rules[i][1]]
      names == {keys[i] : i \in DOMAIN keys}
  IN Processor(
       ROOT_RULE_NAME,
       [name \in names \cup {ROOT_RULE_NAME, RULES_RULE_NAME} |->
          CASE name = ROOT_RULE_NAME -> UntilEmpty(Ref(RULES_RULE_NAME))
            [] name = RULES_RULE_NAME -> Or([i \in DOMAIN keys |-> Ref(keys[i])])
            [] OTHER -> rules[CHOOSE i \in DOMAIN rules : keys[i] = name][2]])

\* Lexer.token_types: the keys of Lexer.token_rules.
token_types(self) == DOMAIN self.rules \ {ROOT_RULE_NAME, RULES_RULE_NAME}

\* Lexer._flatten_result_value: the value of the node, then that of every
\* child in turn.
RECURSIVE flatten_result_value(_)

RECURSIVE flatten_children(_, _, _)
flatten_children(children, i, value) ==
  IF i > Len(children)
  THEN value
  ELSE flatten_children(children, i + 1, value \o flatten_result_value(children[i]))

flatten_result_value(result) ==
  flatten_children(result.children, 1,
                   IF result.value # None THEN result.value ELSE "")

token_from_result(result) ==
  Token(result.rule_name, flatten_result_value(result))

\* The ends of the rule names, for str.startswith.
NameTails == {"", "a", "b", "w", "ws"}

\* s.startswith(prefix).
startswith(s, prefix) == \E tail \in NameTails : s = prefix \o tail

\* Lexer._token_stream_from_result: the values of the TokenStream.
token_stream_from_result(self, result) ==
  LET token_results == where(result, rule_name_in(token_types(self))).children
      tokens == [i \in DOMAIN token_results |-> token_from_result(token_results[i])]
      shown(token) == ~startswith(token.type, "_")
  IN SelectSeq(tokens, shown)

\* Lexer.apply: apply_root on the StateValue load_state_value makes of the
\* text, then the tokens of its Result.
Lexer_apply(self, input) ==
  LET applied == apply_rule_to_state(
                   self, self.root_rule_name,
                   StateOf(self, "StateValue", load_state_value(input)))
  IN IF applied.kind = "ok"
     THEN Returns(token_stream_from_result(self, applied.result))
     ELSE applied

(* ---------------------------- state machine --------------------------- *)

\* ret before any call is made on the rule under construction.
NoCall == [call |-> "none"]

\* The name the rule under construction is registered under.
RootName == "a"

\* The rule under construction.
Root == processor.rules[RootName]

RECURSIVE Depth(_)
Depth(rule) ==
  CASE rule.type = "Literal" -> 0
    [] rule.type \in {"And", "Or"} ->
         LET d == [i \in DOMAIN rule.children |-> Depth(rule.children[i])]
         IN 1 + (IF rule.children = <<>> THEN 0
                 ELSE CHOOSE m \in {d[i] : i \in DOMAIN d} : \A i \in DOMAIN d : d[i] <= m)
    [] OTHER -> 1 + Depth(rule.child)

Leaves == {Literal(v) : v \in LiteralValues}

\* The child lists a sequence rule is built with: the rule built so far next
\* to a leaf, in either order.
ChildLists(rule) ==
  {<<rule, leaf>> : leaf \in Leaves} \cup {<<leaf, rule>> : leaf \in Leaves}

Construct(rule) ==
  /\ Depth(Root) < MaxDepth
  /\ processor' = Processor(RootName, [processor.rules EXCEPT ![RootName] = rule])
  /\ state_value' = <<>>
  /\ ret' = NoCall

Init ==
  /\ \E leaf \in Leaves : processor = Processor(RootName, [n \in {RootName} |-> leaf])
  /\ state_value = <<>>
  /\ ret = NoCall

NewAnd == \E children \in ChildLists(Root) : Construct(And(children))

NewOr == \E children \in ChildLists(Root) : Construct(Or(children))

NewZeroOrMore == Construct(ZeroOrMore(Root))

NewOneOrMore == Construct(OneOrMore(Root))

NewZeroOrOne == Construct(ZeroOrOne(Root))

NewUntilEmpty == Construct(UntilEmpty(Root))

\* rule.apply(State(processor, value)) on the rule under construction. A call
\* is a pure function of the rule and the stream and leaves the processor as
\* it is, so a second call on the same processor reaches no state a first
\* call does not: one call is made per rule constructed.
RuleApply ==
  \E value \in Inputs :
    /\ ret = NoCall
    /\ state_value' = value
    /\ ret' = [call |-> "apply", out |-> Apply(Root, State(processor, value))]
    /\ UNCHANGED processor

\* processor.apply_root(value).
ApplyRoot ==
  \E value \in Inputs :
    /\ ret = NoCall
    /\ state_value' = value
    /\ ret' = [call |-> "apply_root", out |-> apply_root(processor, value)]
    /\ UNCHANGED processor

Next ==
  \/ NewAnd
  \/ NewOr
  \/ NewZeroOrMore
  \/ NewOneOrMore
  \/ NewZeroOrOne
  \/ NewUntilEmpty
  \/ RuleApply
  \/ ApplyRoot

Spec == Init /\ [][Next]_vars

(* ----------------- state machine of a registry with Refs -------------- *)

\* The names a Ref or a call may give. OtherName is registered in some
\* processors, UnknownName in none.
OtherName == "b"

UnknownName == "c"

RuleNames == {RootName, OtherName, UnknownName}

RefLeaves == {Literal("x")} \cup {Ref(name) : name \in RuleNames}

\* The rules the root is registered with: a leaf, or one composite rule
\* over leaves.
RefRules ==
  RefLeaves
    \cup {And(<<l, r>>) : l \in RefLeaves, r \in RefLeaves}
    \cup {Or(<<l, r>>) : l \in RefLeaves, r \in RefLeaves}
    \cup {ZeroOrMore(l) : l \in RefLeaves}
    \cup {OneOrMore(l) : l \in RefLeaves}
    \cup {ZeroOrOne(l) : l \in RefLeaves}
    \cup {UntilEmpty(l) : l \in RefLeaves}

\* Processor(RootName, rules) over a mapping with one or two names.
Registries ==
  {[n \in {RootName} |-> root] : root \in RefRules}
    \cup {[n \in {RootName, OtherName} |-> IF n = RootName THEN root ELSE other] :
            root \in RefRules, other \in RefLeaves}

RefInit ==
  /\ \E rules \in Registries : processor = Processor(RootName, rules)
  /\ state_value = <<>>
  /\ ret = NoCall

\* Ref(rule_name).apply(State(processor, value)).
RefApply ==
  \E rule_name \in RuleNames, value \in Inputs :
    /\ ret = NoCall
    /\ state_value' = value
    /\ ret' = [call |-> "ref_apply", rule_name |-> rule_name,
               out |-> Apply(Ref(rule_name), State(processor, value))]
    /\ UNCHANGED processor

\* processor.apply_rule(rule_name, value).
ApplyRule ==
  \E rule_name \in RuleNames, value \in Inputs :
    /\ ret = NoCall
    /\ state_value' = value
    /\ ret' = [call |-> "apply_rule", rule_name |-> rule_name,
               out |-> apply_rule(processor, rule_name, value)]
    /\ UNCHANGED processor

RefNext ==
  \/ RefApply
  \/ ApplyRule
  \/ ApplyRoot

RefSpec == RefInit /\ [][RefNext]_vars

(* ------------------------- vocabulary of the claims ------------------- *)

\* rule.apply(state) was the last call; Out is what it did.
Applied(type) == ret.call = "apply" /\ Root.type = type

Out == ret.out

\* The State the last call was given.
Given == State(processor, state_value)

\* The States over the suffixes of the given stream.
Suffixes ==
  {State(processor, SubSeq(state_value, k, Len(state_value))) :
     k \in 1..(Len(state_value) + 1)}

\* Applied one after the other, each to the state returned by the one before,
\* the rules all succeed: they start at `state`, return `results` and end in `final`.
RECURSIVE Threads(_, _, _, _)
Threads(rules, state, results, final) ==
  IF rules = <<>>
  THEN results = <<>> /\ final = state
  ELSE /\ results # <<>>
       /\ LET applied == Apply(Head(rules), state)
          IN /\ applied.kind = "ok"
             /\ applied.result = Head(results)
             /\ Threads(Tail(rules), applied.state, Tail(results), final)

\* Applied one after the other from `state`, the rules succeed up to one that
\* raises `error`.
RECURSIVE FailsWith(_, _, _)
FailsWith(rules, state, error) ==
  /\ rules # <<>>
  /\ LET applied == Apply(Head(rules), state)
     IN \/ applied.kind = "error" /\ applied.error = error
        \/ applied.kind = "ok" /\ FailsWith(Tail(rules), applied.state, error)

\* n copies of a rule.
Copies(rule, n) == [i \in 1..n |-> rule]

\* Successive consuming applications of child lead UntilEmpty from `from` to
\* a next application at `to`.
RECURSIVE Reaches(_, _, _)
Reaches(child, from, to) ==
  \/ from = to
  \/ /\ ~Stream_empty(from.value)
     /\ LET applied == Apply(child, from)
        IN /\ applied.kind = "ok"
           /\ applied.state # from
           /\ Reaches(child, applied.state, to)

NotAdvancing == Error(None, "not advancing", <<>>)

(* -------------------------------- claims ------------------------------ *)

\* C1: Or.apply returns the result of the first alternative that succeeds
\* after all earlier ones failed on the same given state, wrapped as the only
\* child of an unnamed, valueless Result, with that alternative's state;
\* whatever the later alternatives would do does not matter.
C1_OrFirstSuccess ==
  Applied("Or") =>
    LET outs == [i \in DOMAIN Root.children |-> Apply(Root.children[i], Given)]
    IN \A i \in DOMAIN outs :
         (outs[i].kind = "ok" /\ \A j \in 1..(i - 1) : outs[j].kind = "error")
           => Out = Ok(Result(None, None, <<outs[i].result>>), outs[i].state)

\* An Or whose first alternative matches and whose second one, applied to the
\* same state, would match more.
C1_Witness ==
  /\ Applied("Or")
  /\ Len(Root.children) = 2
  /\ Out.kind = "ok"
  /\ Apply(Root.children[1], Given).kind = "ok"
  /\ Apply(Root.children[2], Given).kind = "ok"
  /\ Apply(Root.children[2], Given).state # Out.state

\* C2: when every alternative fails, Or.apply raises an unnamed Error whose
\* children are the alternatives' Errors, one each, in declaration order.
C2_OrAllErrors ==
  Applied("Or") =>
    LET outs == [i \in DOMAIN Root.children |-> Apply(Root.children[i], Given)]
    IN (\A i \in DOMAIN outs : outs[i].kind = "error")
         => Out = Raise(Error(None, None, [i \in DOMAIN outs |-> outs[i].error]))

\* An Or of two alternatives that fail with different Errors.
C2_Witness ==
  /\ Applied("Or")
  /\ Len(Root.children) = 2
  /\ Apply(Root.children[1], Given).kind = "error"
  /\ Apply(Root.children[2], Given).kind = "error"
  /\ Apply(Root.children[1], Given).error # Apply(Root.children[2], Given).error
  /\ Out.kind = "error"

\* C3: a successful And.apply returns an unnamed, valueless Result whose
\* children are the children's Results in order, each child having been given
\* the state the previous one returned, and the state of the last child.
C3_AndThreads ==
  (Applied("And") /\ Out.kind = "ok") =>
    /\ Out.result.rule_name = None
    /\ Out.result.value = None
    /\ Threads(Root.children, Given, Out.result.children, Out.state)

\* An And that succeeds although its second child fails on the given state.
C3_Witness ==
  /\ Applied("And")
  /\ Out.kind = "ok"
  /\ Len(Out.result.children) = 2
  /\ Apply(Root.children[2], Given).kind = "error"

\* C4 as stated: a failing And.apply raises an Error whose single child is
\* the Error of the child that failed.
C4_AndNestsError ==
  (Applied("And") /\ Out.kind = "error") =>
    /\ Len(Out.error.children) = 1
    /\ FailsWith(Root.children, Given, Out.error.children[1])

\* C4 as amended: a failing And.apply raises the very Error of the child
\* that failed, with nothing put around it.
C4_AndPropagatesError ==
  (Applied("And") /\ Out.kind = "error") =>
    FailsWith(Root.children, Given, Out.error)

\* An And that fails at its second child, after the first one consumed.
C4_Witness ==
  /\ Applied("And")
  /\ Out.kind = "error"
  /\ Len(Root.children) = 2
  /\ Apply(Root.children[1], Given).kind = "ok"
  /\ Apply(Root.children[1], Given).state # Given

\* C5: ZeroOrMore.apply raises no Error; what it returns is an unnamed,
\* valueless Result whose children are the Results of successive applications
\* of the child from the advancing state, and the state at which the child
\* first fails (the given state when there are no children).
C5_ZeroOrMore ==
  Applied("ZeroOrMore") =>
    /\ Out.kind # "error"
    /\ Out.kind = "ok" =>
         /\ Out.result.rule_name = None
         /\ Out.result.value = None
         /\ Threads(Copies(Root.child, Len(Out.result.children)), Given,
                    Out.result.children, Out.state)
         /\ Apply(Root.child, Out.state).kind = "error"
         /\ Out.result.children = <<>> => Out.state = Given

\* A ZeroOrMore that matches twice and leaves input.
C5_Witness ==
  /\ Applied("ZeroOrMore")
  /\ Out.kind = "ok"
  /\ Len(Out.result.children) = 2
  /\ ~Stream_empty(Out.state.value)

\* A ZeroOrMore whose child fails at once.
C5_WitnessNone ==
  /\ Applied("ZeroOrMore")
  /\ Out.kind = "ok"
  /\ Out.result.children = <<>>
  /\ ~Stream_empty(state_value)

\* C6 as stated: OneOrMore(R).apply(s) succeeds iff R.apply(s) succeeds, and
\* then returns what ZeroOrMore(R).apply(s) returns, with at least one child.
C6_OneOrMoreSucceedsIffChild ==
  Applied("OneOrMore") =>
    LET first == Apply(Root.child, Given)
    IN /\ Out.kind = "ok" <=> first.kind = "ok"
       /\ Out.kind = "ok" =>
            /\ Out = Apply(ZeroOrMore(Root.child), Given)
            /\ Len(Out.result.children) >= 1

\* C6 as amended: OneOrMore(R).apply(s) fails iff R.apply(s) fails, with the
\* Error of R; when R.apply(s) succeeds it does what ZeroOrMore(R).apply(s)
\* does: the same Result (of at least one child) and state, or no return at
\* all, R succeeding forever without consuming.
C6_OneOrMoreLikeZeroOrMore ==
  Applied("OneOrMore") =>
    LET first == Apply(Root.child, Given)
    IN /\ Out.kind = "error" <=> first.kind = "error"
       /\ first.kind = "error" => Out = first
       /\ first.kind = "ok" =>
            /\ Out = Apply(ZeroOrMore(Root.child), Given)
            /\ Out.kind = "ok" => Len(Out.result.children) >= 1
       /\ Stream_empty(state_value) /\ Root.child.type = "Literal" => Out.kind = "error"

\* A OneOrMore that matches twice and leaves input.
C6_Witness ==
  /\ Applied("OneOrMore")
  /\ Out.kind = "ok"
  /\ Len(Out.result.children) = 2
  /\ ~Stream_empty(Out.state.value)

\* C7: ZeroOrOne.apply raises no Error: a failing child gives an unnamed
\* Result with no value and no children and the given state; a succeeding
\* child gives its Result as the only child and its state.
C7_ZeroOrOne ==
  Applied("ZeroOrOne") =>
    LET child == Apply(Root.child, Given)
    IN /\ Out.kind # "error"
       /\ child.kind = "error" => Out = Ok(Result(None, None, <<>>), Given)
       /\ child.kind = "ok" => Out = Ok(Result(None, None, <<child.result>>), child.state)

\* A ZeroOrOne whose child fails after a first part of it consumed input.
C7_Witness ==
  /\ Applied("ZeroOrOne")
  /\ Root.child.type = "And"
  /\ Apply(Root.child.children[1], Given).kind = "ok"
  /\ Apply(Root.child.children[1], Given).state # Given
  /\ Apply(Root.child, Given).kind = "error"
  /\ Out.kind = "ok"

C9_UntilEmptyResult ==
  Applied("UntilEmpty") =>
    /\ Out.kind = "ok" =>
         /\ Stream_empty(Out.state.value)
         /\ Out.result.rule_name = None
         /\ Out.result.value = None
         /\ Threads(Copies(Root.child, Len(Out.result.children)), Given,
                    Out.result.children, Out.state)
    /\ Stream_empty(state_value) => Out = Ok(Result(None, None, <<>>), Given)

\* An UntilEmpty that consumes a stream of three items in more than one
\* application of the child.
C9_Witness ==
  /\ Applied("UntilEmpty")
  /\ Len(state_value) = 3
  /\ Out.kind = "ok"
  /\ Len(Out.result.children) >= 2

\* An UntilEmpty given the empty state, whose child would fail on it.
C9_WitnessEmpty ==
  /\ Applied("UntilEmpty")
  /\ Stream_empty(state_value)
  /\ Apply(Root.child, Given).kind = "error"
  /\ Out.kind = "ok"

\* C10 as stated: when the first application of the child fails under
\* OneOrMore, or an application of the child fails under UntilEmpty while
\* input remains, the rule raises an Error whose single child is the child's.
C10_RepetitionNestsError ==
  /\ Applied("OneOrMore") =>
       LET first == Apply(Root.child, Given)
       IN first.kind = "error" =>
            Out.kind = "error" /\ Out.error.children = <<first.error>>
  /\ Applied("UntilEmpty") =>
       \A at \in Suffixes :
         ( /\ ~Stream_empty(at.value)
           /\ Reaches(Root.child, Given, at)
           /\ Apply(Root.child, at).kind = "error" )
           => Out.kind = "error" /\ Out.error.children = <<Apply(Root.child, at).error>>

\* C10 as amended: in those cases the rule raises the very Error of the
\* child, with nothing put around it.
C10_RepetitionPropagatesError ==
  /\ Applied("OneOrMore") =>
       LET first == Apply(Root.child, Given)
       IN first.kind = "error" => Out = first
  /\ Applied("UntilEmpty") =>
       \A at \in Suffixes :
         ( /\ ~Stream_empty(at.value)
           /\ Reaches(Root.child, Given, at)
           /\ Apply(Root.child, at).kind = "error" )
           => Out = Apply(Root.child, at)

\* An UntilEmpty whose child fails on a later application, input remaining.
C10_Witness ==
  /\ Applied("UntilEmpty")
  /\ Out.kind = "error"
  /\ Out.error # NotAdvancing
  /\ Apply(Root.child, Given).kind = "ok"

\* A OneOrMore whose child fails on the given, non-empty state.
C10_WitnessOneOrMore ==
  /\ Applied("OneOrMore")
  /\ ~Stream_empty(state_value)
  /\ Apply(Root.child, Given).kind = "error"
  /\ Out.kind = "error"

(* ----------------------- state machine of a Lexer --------------------- *)

\* The characters of the texts.
Chars == {"x", "y"}

Texts == {text \in Inputs : \A i \in DOMAIN text : text[i] \in Chars}

\* The names of the token rules; the tokens of "_w" are not shown.
TokenNames == {"a", "b", "_w"}

LexLiterals == {lexer_Literal(c) : c \in Chars}

\* The rules the tokens are declared with.
LexRules ==
  LexLiterals
    \cup {lexer_Class("x", "y"), ZeroOrMore(lexer_Literal("x")),
           And(<<lexer_Literal("x"), lexer_Literal("x")>>),
           And(<<lexer_Literal("x"), lexer_Literal("y")>>)}
    \cup {Not(l) : l \in LexLiterals}
    \cup {OneOrMore(l) : l \in LexLiterals}

\* The mappings a Lexer is built from: no, one or two declarations.
Declarations ==
  {<<>>}
    \cup {<<<<name, rule>>>> : name \in TokenNames, rule \in LexRules}
    \cup UNION {{<<<<name, rule>>, <<other, second>>>> :
                   other \in TokenNames \ {name}, second \in LexRules} :
                 name \in TokenNames, rule \in LexRules}

\* The classes of the streams of _Items a rule is applied to.
StreamClasses == {"Stream", "StateValue"}

LexInit ==
  /\ \E rules \in Declarations : processor = Lexer(rules)
  /\ state_value = <<>>
  /\ ret = NoCall

\* lexer.apply(text).
LexerApply ==
  \E text \in Texts :
    /\ ret = NoCall
    /\ state_value' = text
    /\ ret' = [call |-> "Lexer.apply", out |-> Lexer_apply(processor, text)]
    /\ UNCHANGED processor

\* rule.apply(State(lexer, stream)) on a declared token rule, the stream
\* being load_state_value(text) or a Stream of its items.
LexerRuleApply ==
  \E rule_name \in token_types(processor), class \in StreamClasses, text \in Texts :
    /\ ret = NoCall
    /\ state_value' = text
    /\ ret' = [call |-> "rule.apply", rule_name |-> rule_name, class |-> class,
               out |-> Apply(processor.rules[rule_name],
                             StateOf(processor, class, load_state_value(text)))]
    /\ UNCHANGED processor

\* lexer.apply_root(stream), the stream as in LexerRuleApply.
LexerApplyRoot ==
  \E class \in StreamClasses, text \in Texts :
    /\ ret = NoCall
    /\ state_value' = text
    /\ ret' = [call |-> "Lexer.apply_root", class |-> class,
               out |-> apply_rule_to_state(
                         processor, processor.root_rule_name,
                         StateOf(processor, class, load_state_value(text)))]
    /\ UNCHANGED processor

\* lexer._token_stream_from_result(result) on the Result apply_root returned.
TokenStreamFromResult ==
  /\ ret.call = "Lexer.apply_root"
  /\ ret.out.kind = "ok"
  /\ ret' = [call |-> "Lexer._token_stream_from_result", result |-> ret.out.result,
             out |-> Returns(token_stream_from_result(processor, ret.out.result))]
  /\ UNCHANGED <<processor, state_value>>

LexNext ==
  \/ LexerApply
  \/ LexerRuleApply
  \/ LexerApplyRoot
  \/ TokenStreamFromResult

LexSpec == LexInit /\ [][LexNext]_vars

(* ------------------- state machine of Result queries ------------------ *)

\* The names the Results are built with.
ResultNames == {None, "a", "b"}

\* The leaves of the Results under construction, all with a value.
ResultLeaves == {Result(rule_name, "x", <<>>) : rule_name \in ResultNames}

\* The leaves put next to the Result built so far.
SiblingLeaves == {Result(rule_name, "x", <<>>) : rule_name \in {None, "a"}}

\* The rule_name and value of the inner nodes.
InnerLabels == {<<rule_name, None>> : rule_name \in ResultNames} \cup {<<"a", "x">>}

RECURSIVE ResultDepth(_)
ResultDepth(result) ==
  IF result.children = <<>>
  THEN 0
  ELSE LET d == [i \in DOMAIN result.children |-> ResultDepth(result.children[i])]
       IN 1 + (CHOOSE m \in {d[i] : i \in DOMAIN d} : \A i \in DOMAIN d : d[i] <= m)

\* The predicates the Result is queried with.
Preds ==
  {rule_name_is("a"), rule_name_is("b"), rule_name_in({"a", "b"}),
   has_value, has_rule_name}

\* The Result built so far.
Built == ret.out

WhereInit ==
  /\ processor = Processor(RootName, <<>>)
  /\ state_value = <<>>
  /\ \E leaf \in ResultLeaves : ret = [call |-> "Result", out |-> leaf]

\* Result(rule_name=..., value=..., children=[...]) around the Result built
\* so far, alone or next to a leaf.
NewResult ==
  /\ ret.call = "Result"
  /\ ResultDepth(Built) < MaxDepth
  /\ \E label \in InnerLabels :
       \E children \in {<<Built>>}
                         \cup {<<Built, leaf>> : leaf \in SiblingLeaves}
                         \cup {<<leaf, Built>> : leaf \in SiblingLeaves} :
         ret' = [call |-> "Result", out |-> Result(label[1], label[2], children)]
  /\ UNCHANGED <<processor, state_value>>

\* result.where(pred).
Where ==
  /\ ret.call = "Result"
  /\ \E pred \in Preds :
       ret' = [call |-> "where", self |-> Built, pred |-> pred,
               out |-> Returns(where(Built, pred))]
  /\ UNCHANGED <<processor, state_value>>

\* result.where_children(pred).
WhereChildren ==
  /\ ret.call = "Result"
  /\ \E pred \in Preds :
       ret' = [call |-> "where_children", self |-> Built, pred |-> pred,
               out |-> Returns(where_children(Built, pred))]
  /\ UNCHANGED <<processor, state_value>>

\* result.where_n(n, pred).
WhereN ==
  /\ ret.call = "Result"
  /\ \E pred \in Preds :
     \E n \in {0, 1, 2, Len(where(Built, pred).children)} :
       ret' = [call |-> "where_n", self |-> Built, pred |-> pred, n |-> n,
               out |-> where_n(Built, n, pred)]
  /\ UNCHANGED <<processor, state_value>>

\* result.where_one(pred).
WhereOne ==
  /\ ret.call = "Result"
  /\ \E pred \in Preds :
       ret' = [call |-> "where_one", self |-> Built, pred |-> pred,
               out |-> where_one(Built, pred)]
  /\ UNCHANGED <<processor, state_value>>

WhereNext ==
  \/ NewResult
  \/ Where
  \/ WhereChildren
  \/ WhereN
  \/ WhereOne

WhereSpec == WhereInit /\ [][WhereNext]_vars

(* ---------------------- claims about the registry --------------------- *)

\* Ref(rule_name).apply has been called and the name is registered.
RefApplied == ret.call = "ref_apply" /\ ret.rule_name \in DOMAIN processor.rules

\* C12: Ref(name).apply looks the name up in the registry of the processor
\* the state carries and applies the rule found to the state it was given.
\* It succeeds exactly when that rule succeeds and then returns an unnamed,
\* valueless Result whose only child is the rule's Result named `name`, with
\* the rule's state; it fails exactly when that rule fails and then raises
\* an unnamed Error without message whose only child is the rule's Error
\* named `name`.
C12_RefWraps ==
  RefApplied =>
    LET name == ret.rule_name
        referenced == Apply(processor.rules[name], Given)
    IN /\ (Out.kind = "ok") = (referenced.kind = "ok")
       /\ (Out.kind = "error") = (referenced.kind = "error")
       /\ referenced.kind = "ok" =>
            Out = Ok(Result(None, None,
                            <<Result(name, referenced.result.value,
                                     referenced.result.children)>>),
                     referenced.state)
       /\ referenced.kind = "error" =>
            Out = Raise(Error(None, None,
                              <<Error(name, referenced.error.msg,
                                      referenced.error.children)>>))

\* A Ref to a rule that consumes items has succeeded.
C12_Witness ==
  /\ RefApplied
  /\ Out.kind = "ok"
  /\ Out.state # Given
  /\ Out.result.children[1].children # <<>>

\* apply_rule(rule_name, value) or apply_root(value) has been called for a
\* registered name.
RuleApplied ==
  \/ ret.call = "apply_rule" /\ ret.rule_name \in DOMAIN processor.rules
  \/ ret.call = "apply_root" /\ processor.root_rule_name \in DOMAIN processor.rules

\* The name the call was made for.
AppliedName ==
  IF ret.call = "apply_root" THEN processor.root_rule_name ELSE ret.rule_name

\* C13: for a registered name, apply_rule(name, input), and apply_root for
\* the root name, returns the Result of the rule registered under the name
\* with rule_name = name and the rule's value, children and state, or raises
\* the rule's Error with rule_name = name and the rule's msg and children.
C13_ApplyRuleAnnotates ==
  RuleApplied =>
    LET name == AppliedName
        underlying == Apply(processor.rules[name], Given)
    IN /\ Out.kind = "ok" => Out.result.rule_name = name
       /\ Out.kind = "error" => Out.error.rule_name = name
       /\ underlying.kind = "ok" =>
            Out = Ok(Result(name, underlying.result.value, underlying.result.children),
                     underlying.state)
       /\ underlying.kind = "error" =>
            Out = Raise(Error(name, underlying.error.msg, underlying.error.children))
       /\ underlying.kind \notin {"ok", "error"} => Out = underlying

\* apply_rule has raised the Error of a rule that has children of its own.
C13_Witness ==
  /\ RuleApplied
  /\ ret.call = "apply_rule"
  /\ Out.kind = "error"
  /\ Out.error.children # <<>>
  /\ Out.error.rule_name = OtherName

\* The Error apply_rule_to_state raises for a name that is not registered.
UnknownRule(rule_name) == Error(None, "unknown rule " \o rule_name, <<>>)

\* C14: a name that is not in the registry makes apply_rule raise an Error
\* whose msg is 'unknown rule <name>'; looked up by a Ref, the same Error is
\* raised and leaves Ref.apply as the only child of the Ref's unnamed Error,
\* also when the Ref is reached after earlier children of a sequence have
\* succeeded. No call ends in a KeyError.
C14_UnknownRule ==
  /\ ret.call = "apply_rule" /\ ret.rule_name \notin DOMAIN processor.rules =>
       Out = Raise(UnknownRule(ret.rule_name))
  /\ ret.call = "ref_apply" /\ ret.rule_name \notin DOMAIN processor.rules =>
       Out = Raise(Error(None, None, <<UnknownRule(ret.rule_name)>>))
  /\ ( /\ ret.call = "apply_root"
       /\ Root.type = "And"
       /\ Root.children[2].type = "Ref"
       /\ Root.children[2].rule_name \notin DOMAIN processor.rules
       /\ Apply(Root.children[1], Given).kind = "ok" ) =>
       Out = Raise(Error(RootName, None, <<UnknownRule(Root.children[2].rule_name)>>))
  /\ ret.call # "none" /\ Out.kind = "uncaught" => Out.exception # "KeyError"

\* A sequence has consumed an item and then reached a Ref to a name that is
\* not registered.
C14_Witness ==
  /\ ret.call = "apply_root"
  /\ Root.type = "And"
  /\ Root.children[1].type = "Literal"
  /\ Root.children[2] = Ref(UnknownName)
  /\ Out = Raise(Error(RootName, None, <<UnknownRule(UnknownName)>>))

(* --------------------- claims about Result queries -------------------- *)

\* The paths of a Result: for every node the child numbers that lead to it
\* from the root.
RECURSIVE Paths(_)
Paths(result) ==
  {<<>>} \cup UNION {{<<i>> \o path : path \in Paths(result.children[i])} :
                     i \in DOMAIN result.children}

RECURSIVE NodeAt(_, _)
NodeAt(result, path) ==
  IF path = <<>> THEN result ELSE NodeAt(result.children[Head(path)], Tail(path))

\* path leads to a proper ancestor of the node other leads to.
Above(path, other) ==
  /\ Len(path) < Len(other)
  /\ SubSeq(other, 1, Len(path)) = path

\* path comes before other in document order (pre-order, left to right).
Before(path, other) ==
  \/ Above(path, other)
  \/ \E k \in 1..Len(path) :
       /\ k <= Len(other)
       /\ SubSeq(path, 1, k - 1) = SubSeq(other, 1, k - 1)
       /\ path[k] < other[k]

\* The nodes that satisfy pred and have no proper ancestor that does.
Outermost(result, pred) ==
  {path \in Paths(result) :
     /\ Satisfies(NodeAt(result, path), pred)
     /\ \A other \in Paths(result) :
          Above(other, path) => ~Satisfies(NodeAt(result, other), pred)}

\* The nodes at the paths, in document order.
RECURSIVE InDocumentOrder(_, _)
InDocumentOrder(result, paths) ==
  IF paths = {}
  THEN <<>>
  ELSE LET first == CHOOSE path \in paths :
                      \A other \in paths \ {path} : Before(path, other)
       IN <<NodeAt(result, first)>> \o InDocumentOrder(result, paths \ {first})

\* C16: result.where(pred) returns an unnamed Result without value whose
\* children are the nodes of the tree that satisfy pred and have no proper
\* ancestor that satisfies it, in document order; none of them lies below
\* another, and a receiver that satisfies pred is the only child.
C16_WhereOutermost ==
  ret.call = "where" =>
    /\ Out.kind = "ok"
    /\ Out.value = Result(None, None,
                          InDocumentOrder(ret.self, Outermost(ret.self, ret.pred)))
    /\ \A path \in Outermost(ret.self, ret.pred) :
         \A other \in Outermost(ret.self, ret.pred) : ~Above(path, other)
    /\ Satisfies(ret.self, ret.pred) => Out.value.children = <<ret.self>>

\* where has returned two nodes, one of which has a descendant that
\* satisfies the predicate too, from below a receiver that does not.
C16_Witness ==
  /\ ret.call = "where"
  /\ ~Satisfies(ret.self, ret.pred)
  /\ Len(Out.value.children) = 2
  /\ \E i \in 1..2 :
       \E path \in Paths(Out.value.children[i]) \ {<<>>} :
         Satisfies(NodeAt(Out.value.children[i], path), ret.pred)

\* C17: where_one(pred) returns the one child of where(pred) when there is
\* exactly one and raises an Error when there are none or several;
\* where_n(n, pred) returns what where(pred) returns when that has exactly n
\* children and raises an Error otherwise.
C17_WhereCounts ==
  /\ ret.call = "where_one" =>
       LET found == where(ret.self, ret.pred).children
       IN IF Len(found) = 1
          THEN Out = Returns(found[1]) /\ Satisfies(found[1], ret.pred)
          ELSE Out.kind = "error"
  /\ ret.call = "where_n" =>
       LET found == where(ret.self, ret.pred)
       IN IF Len(found.children) = ret.n
          THEN Out = Returns(found)
          ELSE Out.kind = "error"

\* where_one has raised an Error for a Result where two nodes satisfy the
\* predicate.
C17_Witness ==
  /\ ret.call = "where_one"
  /\ Out.kind = "error"
  /\ Len(where(ret.self, ret.pred).children) = 2

(* ------------------------ claims about the Lexer ---------------------- *)

\* The rule a token rule's apply was called on, and the State it was given.
LexRule == processor.rules[ret.rule_name]

LexGiven == StateOf(processor, ret.class, load_state_value(state_value))

\* The State after the head of the given stream.
LexTail == State_with_value(LexGiven, Stream_tail(LexGiven.value))

\* The head of the given stream satisfies the pred of the head-matching rule.
HeadMatches ==
  /\ ~Stream_empty(LexGiven.value)
  /\ LET head == Stream_head(LexGiven.value).value
     IN IF LexRule.type = "lexer.Class"
        THEN ord(LexRule.min) <= ord(head) /\ ord(head) <= ord(LexRule.max)
        ELSE head = LexRule.value

\* C15: a head-matching rule (lexer.Literal, lexer.Class) applied to a
\* non-empty stream whose head satisfies its pred succeeds with a leaf
\* Result holding the head's value and the state over the tail of the
\* stream; applied to an empty stream or to another head it raises an Error.
C15_HeadRule ==
  ret.call = "rule.apply" /\ LexRule.type \in {"lexer.Literal", "lexer.Class"} =>
    IF HeadMatches
    THEN Out = Ok(Result(None, Stream_head(LexGiven.value).value, <<>>), LexTail)
    ELSE Out.kind = "error"

\* C11: Not.apply raises an Error on an empty state; on a non-empty state
\* it succeeds exactly when the child raises an Error on that state, and
\* then returns a leaf Result holding the head's value and the state over the
\* tail; when the child succeeds Not raises an Error.
C11_Not ==
  ret.call = "rule.apply" /\ LexRule.type = "Not" =>
    IF Stream_empty(LexGiven.value)
    THEN Out.kind = "error"
    ELSE LET child_result == Apply(LexRule.child, LexGiven)
         IN /\ (Out.kind = "ok") = (child_result.kind = "error")
            /\ child_result.kind = "error" =>
                 Out = Ok(Result(None, Stream_head(LexGiven.value).value, <<>>), LexTail)
            /\ child_result.kind = "ok" => Out.kind = "error"

\* What the root rule of the Lexer makes of the items of the text when they
\* are held in a stream_processor.Stream.
RootOnItems ==
  apply_rule_to_state(processor, processor.root_rule_name,
                      StateOf(processor, "Stream", load_state_value(state_value)))

\* The Tokens of the Result nodes, type by type and value by value.
TokensOf(nodes) ==
  [i \in DOMAIN nodes |-> Token(nodes[i].rule_name, flatten_result_value(nodes[i]))]

\* The tokens whose type does not begin with '_'.
Shown(tokens) ==
  LET shown(token) == \A tail \in NameTails : token.type # "_" \o tail
  IN SelectSeq(tokens, shown)

\* The characters and the token values put together.
RECURSIVE Join(_)
Join(strings) ==
  IF strings = <<>> THEN "" ELSE Head(strings) \o Join(Tail(strings))

Declared == [i \in DOMAIN processor.rules[RULES_RULE_NAME].children |->
               processor.rules[RULES_RULE_NAME].children[i].rule_name]

\* The number of the first declared token rule that matches at the state,
\* 0 when none does.
FirstMatch(state) ==
  LET matching == {i \in DOMAIN Declared :
                     Apply(processor.rules[Declared[i]], state).kind = "ok"}
  IN IF matching = {}
     THEN 0
     ELSE CHOOSE i \in matching : \A j \in matching : i <= j

\* The tokens of first-match tokenisation from the state on: at each
\* position the token of the first declared rule that matches there. `ok`
\* is false when some position has no match or the match consumes nothing.
RECURSIVE FirstMatchTokens(_)
FirstMatchTokens(state) ==
  IF Stream_empty(state.value)
  THEN [ok |-> TRUE, tokens |-> <<>>]
  ELSE LET i == FirstMatch(state)
       IN IF i = 0
          THEN [ok |-> FALSE]
          ELSE LET applied == Apply(processor.rules[Declared[i]], state)
               IN IF applied.state = state
                  THEN [ok |-> FALSE]
                  ELSE LET rest == FirstMatchTokens(applied.state)
                       IN IF rest.ok
                          THEN [ok |-> TRUE,
                                tokens |-> <<Token(Declared[i],
                                                   flatten_result_value(applied.result))>>
                                             \o rest.tokens]
                          ELSE rest

\* C20: the root of a Lexer is UntilEmpty over a Ref to an Or of one Ref per
\* declared token rule, and for a text that first-match tokenisation covers
\* Lexer.apply(text) returns, position by position, the token of the first
\* declared rule that matches there (those with a type in '_' left out),
\* whether or not a later rule matches more.
C20_FirstMatchWins ==
  ret.call = "Lexer.apply" =>
    /\ processor.rules[ROOT_RULE_NAME] = UntilEmpty(Ref(RULES_RULE_NAME))
    /\ processor.rules[RULES_RULE_NAME] = Or([i \in DOMAIN Declared |-> Ref(Declared[i])])
    /\ {Declared[i] : i \in DOMAIN Declared} = token_types(processor)
    /\ LET expected == FirstMatchTokens(
                          StateOf(processor, "Stream", load_state_value(state_value)))
       IN expected.ok => Out = Returns(Shown(expected.tokens))

\* The declared token rules that match at the state.
Matching(state) ==
  {i \in DOMAIN Declared : Apply(processor.rules[Declared[i]], state).kind = "ok"}

\* First-match tokenisation from the state on comes to a position where more
\* than one declared token rule matches.
RECURSIVE Ambiguous(_)
Ambiguous(state) ==
  IF Stream_empty(state.value)
  THEN FALSE
  ELSE \/ Cardinality(Matching(state)) > 1
       \/ /\ FirstMatch(state) # 0
          /\ LET applied == Apply(processor.rules[Declared[FirstMatch(state)]], state)
             IN applied.state # state /\ Ambiguous(applied.state)

\* C21: when more than one declared token rule matches at a position of the
\* text, Lexer.apply(text) raises an Error and returns no tokens.
C21_AmbiguityRaises ==
  ret.call = "Lexer.apply"
    /\ Ambiguous(StateOf(processor, "Stream", load_state_value(state_value))) =>
    Out.kind = "error"

\* First-match tokenisation from the state on comes to a position where no
\* declared token rule matches.
RECURSIVE Unmatched(_)
Unmatched(state) ==
  IF Stream_empty(state.value)
  THEN FALSE
  ELSE \/ FirstMatch(state) = 0
       \/ LET applied == Apply(processor.rules[Declared[FirstMatch(state)]], state)
          IN applied.state # state /\ Unmatched(applied.state)

\* The rule names of the outermost sub-errors of an error tree that are
\* labelled with a declared token type, in document order.
RECURSIVE TokenErrors(_)
TokenErrors(error) ==
  IF error.rule_name \in token_types(processor)
  THEN <<error.rule_name>>
  ELSE LET RECURSIVE below(_)
           below(i) == IF i > Len(error.children)
                       THEN <<>>
                       ELSE TokenErrors(error.children[i]) \o below(i + 1)
       IN below(1)

\* C25: when first-match tokenisation of the text comes to a position where
\* no declared token rule matches, Lexer.apply(text) raises an Error, so that
\* no token is returned, and the error tree holds one sub-error for every
\* declared token rule, in the order of declaration, labelled with the
\* rule's name.
C25_AllOrNothing ==
  ret.call = "Lexer.apply"
    /\ Unmatched(StateOf(processor, "Stream", load_state_value(state_value))) =>
    /\ Out.kind = "error"
    /\ TokenErrors(Out.error) = Declared

(* ------------------ pysh.types_: variables and scopes ----------------- *)

\* types_.Error(msg). The parts an f-string puts together are kept as a
\* tuple, the objects among them unformatted.
types_Error(msg) == [msg |-> msg]

\* types_.Builtin(_name), the Type the variables are declared with.
Builtin(name) == [_name |-> name]

\* Builtin.check_assignable(type): only the same type is assignable.
Builtin_check_assignable(self, type) ==
  IF type # self
  THEN Raise(types_Error(<<self, " cannot be assigned with type ", type>>))
  ELSE Returns(None)

\* A Val: all that types_ asks of it is its type.
Val(type, name) == [type |-> type, name |-> name]

\* Var(_type, _val) and MutableVar(_type, _val).
Var(class, type, val) == [class |-> class, _type |-> type, _val |-> val]

\* Var.__post_init__: the value a variable is made with is checked.
Var_post_init(self) ==
  LET checked == Builtin_check_assignable(self._type, self._val.type)
  IN IF checked.kind = "error"
     THEN Raise(types_Error(<<self, " has incompatible val: ", checked.error>>))
     ELSE checked

\* Var.check_assignable(val).
Var_check_assignable(self, val) ==
  LET checked == Builtin_check_assignable(self._type, val.type)
  IN IF checked.kind = "error"
     THEN Raise(types_Error(<<self, " unable to be set with val ", val, ": ",
                              checked.error>>))
     ELSE checked

\* The store: the Var objects by identity and the scopes in the order of
\* their construction; a scope's _vars maps names to Var objects and its
\* parent is <<>> for None or <<scope>> for an earlier scope.
Store(vars_, scopes) == [vars |-> vars_, scopes |-> scopes]

\* Scope(_vars, parent) and MutableScope(_vars, parent).
Scope(class, vars_, parent) == [class |-> class, _vars |-> vars_, parent |-> parent]

\* The outcome of a call that returns nothing and leaves the store `store`.
Done(store) == [kind |-> "ok", store |-> store]

\* `var.val = val`: the setter of Var raises, the setter of MutableVar checks
\* the value and stores it.
Var_val_setter(store, var, val) ==
  LET self == store.vars[var]
  IN IF self.class = "Var"
     THEN Raise(types_Error(<<"unable to set ", self, " with ", val, ": immutable">>))
     ELSE LET checked == Var_check_assignable(self, val)
          IN IF checked.kind = "error"
             THEN checked
             ELSE Done([store EXCEPT !.vars[var]._val = val])

\* scope[name]: the value of the nearest declaration along the parents.
RECURSIVE Scope_getitem(_, _, _)
Scope_getitem(store, scope, name) ==
  LET self == store.scopes[scope]
  IN IF name \in DOMAIN self._vars
     THEN Returns(store.vars[self._vars[name]]._val)
     ELSE IF self.parent # <<>>
          THEN Scope_getitem(store, self.parent[1], name)
          ELSE Raise(types_Error("unknown var " \o name))

\* scope[name] = val that goes on to the parent whatever its class.
RECURSIVE MutableScope_setitem_AnyParent(_, _, _, _)
MutableScope_setitem_AnyParent(store, scope, name, val) ==
  LET self == store.scopes[scope]
  IN IF name \in DOMAIN self._vars
     THEN LET set == Var_val_setter(store, self._vars[name], val)
          IN IF set.kind = "error"
             THEN Raise(types_Error(<<"unable to set ", name, " to val ", val, ": ",
                                      set.error>>))
             ELSE set
     ELSE IF self.parent # <<>>
          THEN MutableScope_setitem_AnyParent(store, self.parent[1], name, val)
          ELSE Raise(types_Error("unknown var " \o name))

\* scope[name] = val.
RECURSIVE MutableScope_setitem(_, _, _, _)
MutableScope_setitem(store, scope, name, val) ==
  LET self == store.scopes[scope]
  IN IF name \in DOMAIN self._vars
     THEN LET set == Var_val_setter(store, self._vars[name], val)
          IN IF set.kind = "error"
             THEN Raise(types_Error(<<"unable to set ", name, " to val ", val, ": ",
                                      set.error>>))
             ELSE set
     ELSE IF self.parent # <<>> /\ store.scopes[self.parent[1]].class = "MutableScope"
          THEN MutableScope_setitem(store, self.parent[1], name, val)
          ELSE Raise(types_Error("unknown var " \o name))

\* scope.decl(name, var).
MutableScope_decl(store, scope, name, var) ==
  LET self == store.scopes[scope]
  IN IF name \in DOMAIN self._vars
     THEN Raise(types_Error("duplicate var " \o name))
     ELSE Done([store EXCEPT !.scopes[scope]._vars =
                  [n \in DOMAIN self._vars \cup {name} |->
                     IF n = name THEN var ELSE self._vars[n]]])

(* --------------------- state machine of the scopes -------------------- *)

\* The longest chain of scopes.
MaxScopes == 2

\* The names variables are declared with.
VarNames == {"a", "b"}

\* The Var objects.
VarIds == {"v", "w"}

Types == {Builtin("int"), Builtin("str")}

Vals == {Val(Builtin("int"), "c"), Val(Builtin("int"), "d"), Val(Builtin("str"), "s")}

\* The Var objects that can be made: __post_init__ lets them through.
Vars ==
  {var \in {Var(class, type, val) : class \in {"Var", "MutableVar"},
                                    type \in Types, val \in Vals} :
     Var_post_init(var).kind = "ok"}

\* The dicts a scope is made with.
Dicts == UNION {[names -> VarIds] : names \in SUBSET VarNames}

ScopeClasses == {"Scope", "MutableScope"}

\* The chains of n scopes, each the parent of the next.
RECURSIVE Chains(_)
Chains(n) ==
  IF n = 0
  THEN {<<>>}
  ELSE {Append(chain, Scope(class, dict, IF n = 1 THEN <<>> ELSE <<n - 1>>)) :
          chain \in Chains(n - 1), class \in ScopeClasses, dict \in Dicts}

\* The stores that constructing Vars and scopes gives.
Stores ==
  {Store(vars_, scopes) :
     vars_ \in [VarIds -> Vars],
     scopes \in UNION {Chains(n) : n \in 1..MaxScopes}}

\* The variable `state_value` holds the store; `processor` holds no Processor.
ScopeInit ==
  /\ processor = None
  /\ state_value \in Stores
  /\ ret = NoCall

\* The store a call leaves: the one of its outcome, the old one on an Error.
StoreAfter(out) == IF out.kind = "ok" THEN out.store ELSE state_value

MutableScopes ==
  {scope \in DOMAIN state_value.scopes :
     state_value.scopes[scope].class = "MutableScope"}

\* scope[name] = val on a MutableScope.
SetItem ==
  \E scope \in MutableScopes, name \in VarNames, val \in Vals :
    LET out == MutableScope_setitem(state_value, scope, name, val)
    IN /\ ret = NoCall
       /\ state_value' = StoreAfter(out)
       /\ ret' = [call |-> "__setitem__", scope |-> scope, name |-> name, val |-> val,
                  before |-> state_value, out |-> out]
       /\ UNCHANGED processor

\* scope.decl(name, var) on a MutableScope.
Decl ==
  \E scope \in MutableScopes, name \in VarNames, var \in VarIds :
    LET out == MutableScope_decl(state_value, scope, name, var)
    IN /\ ret = NoCall
       /\ state_value' = StoreAfter(out)
       /\ ret' = [call |-> "decl", scope |-> scope, name |-> name, var |-> var,
                  before |-> state_value, out |-> out]
       /\ UNCHANGED processor

\* scope[name] on any scope.
GetItem ==
  \E scope \in DOMAIN state_value.scopes, name \in VarNames :
    /\ ret = NoCall
    /\ ret' = [call |-> "__getitem__", scope |-> scope, name |-> name,
               out |-> Scope_getitem(state_value, scope, name)]
    /\ UNCHANGED <<processor, state_value>>

ScopeNext ==
  \/ SetItem
  \/ Decl
  \/ GetItem

ScopeSpec == ScopeInit /\ [][ScopeNext]_vars

(* ------------------------ claims about the scopes --------------------- *)

\* The store before the call.
StoreBefore == ret.before

\* The scope the call was made on and the scopes reached from it through
\* parents that are MutableScopes, nearest first.
RECURSIVE MutableChain(_, _)
MutableChain(store, scope) ==
  LET parent == store.scopes[scope].parent
  IN <<scope>> \o (IF parent # <<>> /\ store.scopes[parent[1]].class = "MutableScope"
                   THEN MutableChain(store, parent[1])
                   ELSE <<>>)

\* The places of the chain whose scope declares the name of the call.
Declaring ==
  {i \in DOMAIN MutableChain(StoreBefore, ret.scope) :
     ret.name \in DOMAIN StoreBefore.scopes[MutableChain(StoreBefore, ret.scope)[i]]._vars}

\* The nearest scope of the chain that declares the name, and its Var object.
Nearest ==
  MutableChain(StoreBefore, ret.scope)[CHOOSE i \in Declaring : \A j \in Declaring : i <= j]

NearestVar == StoreBefore.scopes[Nearest]._vars[ret.name]

\* The call raised an Error and left every scope and every Var as it was.
Failed == Out.kind = "error" /\ state_value = StoreBefore

\* C26: scope[name] = val sets the Var object that the nearest scope of the
\* chain of mutable parents declares as name, changes no other Var object
\* and no scope, and scope[name] is val afterwards; when no scope of the
\* chain declares name, or that Var is not a MutableVar, or the type of val is
\* not the type of the Var, it raises an Error and nothing changes.
\* scope.decl(name, var) raises an Error and changes nothing when the scope
\* itself declares name, and otherwise binds name to var in that scope only,
\* so that scope[name] is the value of var whatever the parents declare.
C26_ScopeAssignment ==
  /\ ret.call = "__setitem__" =>
       IF Declaring # {}
            /\ StoreBefore.vars[NearestVar].class = "MutableVar"
            /\ ret.val.type = StoreBefore.vars[NearestVar]._type
       THEN /\ Out.kind = "ok"
            /\ state_value.scopes = StoreBefore.scopes
            /\ state_value.vars[NearestVar] = [StoreBefore.vars[NearestVar] EXCEPT !._val = ret.val]
            /\ \A var \in VarIds \ {NearestVar} : state_value.vars[var] = StoreBefore.vars[var]
            /\ Scope_getitem(state_value, ret.scope, ret.name) = Returns(ret.val)
       ELSE Failed
  /\ ret.call = "decl" =>
       IF ret.name \in DOMAIN StoreBefore.scopes[ret.scope]._vars
       THEN Failed
       ELSE /\ Out.kind = "ok"
            /\ state_value.vars = StoreBefore.vars
            /\ \A scope \in DOMAIN StoreBefore.scopes \ {ret.scope} :
                 state_value.scopes[scope] = StoreBefore.scopes[scope]
            /\ DOMAIN state_value.scopes = DOMAIN StoreBefore.scopes
            /\ state_value.scopes[ret.scope].class = StoreBefore.scopes[ret.scope].class
            /\ state_value.scopes[ret.scope].parent = StoreBefore.scopes[ret.scope].parent
            /\ DOMAIN state_value.scopes[ret.scope]._vars =
                 DOMAIN StoreBefore.scopes[ret.scope]._vars \cup {ret.name}
            /\ \A name \in DOMAIN StoreBefore.scopes[ret.scope]._vars :
                 state_value.scopes[ret.scope]._vars[name] =
                   StoreBefore.scopes[ret.scope]._vars[name]
            /\ state_value.scopes[ret.scope]._vars[ret.name] = ret.var
            /\ Scope_getitem(state_value, ret.scope, ret.name) =
                 Returns(StoreBefore.vars[ret.var]._val)

\* An assignment made on a scope that does not declare the name changed the
\* value of a Var of its parent, while the scope declares another name for
\* another Var, which kept its value.
C26_Witness ==
  /\ ret.call = "__setitem__"
  /\ Out.kind = "ok"
  /\ Nearest # ret.scope
  /\ StoreBefore.vars[NearestVar]._val # ret.val
  /\ \E name \in DOMAIN StoreBefore.scopes[ret.scope]._vars :
       StoreBefore.scopes[ret.scope]._vars[name] # NearestVar

\* An assignment failed on a Var that is not a MutableVar.
C26_WitnessImmutable ==
  /\ ret.call = "__setitem__"
  /\ Out.kind = "error"
  /\ Declaring # {}
  /\ StoreBefore.vars[NearestVar].class = "Var"
  /\ ret.val.type = StoreBefore.vars[NearestVar]._type

\* An assignment failed because the only declaration of the name is in a
\* parent that is not a MutableScope.
C26_WitnessUnknown ==
  /\ ret.call = "__setitem__"
  /\ Out.kind = "error"
  /\ Declaring = {}
  /\ Scope_getitem(StoreBefore, ret.scope, ret.name).kind = "ok"

\* A declaration shadowed the declaration of a parent.
C26_WitnessDecl ==
  /\ ret.call = "decl"
  /\ Out.kind = "ok"
  /\ Scope_getitem(StoreBefore, ret.scope, ret.name).kind = "ok"
  /\ Scope_getitem(StoreBefore, ret.scope, ret.name) #
       Scope_getitem(state_value, ret.scope, ret.name)

\* A declaration of a name the scope declares already failed.
C26_WitnessDuplicate ==
  /\ ret.call = "decl"
  /\ Out.kind = "error"

(* -------------- state machine of rule trees of every variant ---------- *)

\* The leaves of the trees and their negations.
CursorLeaves ==
  {lexer_Literal("x"), lexer_Literal("y"), lexer_Class("x", "y"), Ref(OtherName)}

CursorBase == CursorLeaves \cup {Not(leaf) : leaf \in CursorLeaves}

\* The rules with one child.
Repeated(children) ==
  {ZeroOrMore(child) : child \in children}
    \cup {OneOrMore(child) : child \in children}
    \cup {ZeroOrOne(child) : child \in children}
    \cup {UntilEmpty(child) : child \in children}

\* The rules with two children.
Paired(children) ==
  {And(<<first, second>>) : first \in children, second \in children}
    \cup {Or(<<first, second>>) : first \in children, second \in children}

\* The rule trees: a leaf or its negation, a rule over those, or a rule with
\* one child over such a rule.
CursorRules ==
  CursorBase
    \cup Repeated(CursorBase) \cup Paired(CursorBase)
    \cup Repeated(Repeated(CursorBase) \cup Paired(CursorBase))

\* The rules the Refs of the trees name.
CursorTargets ==
  {lexer_Literal("x"), ZeroOrMore(lexer_Literal("y")), Not(lexer_Literal("x"))}

CursorInit ==
  /\ \E rule \in CursorRules, target \in CursorTargets :
       processor = Processor(RootName, [name \in {RootName, OtherName} |->
                                          IF name = RootName THEN rule ELSE target])
  /\ state_value = <<>>
  /\ ret = NoCall

\* rule.apply(State(processor, stream)) on the root rule, the stream being
\* load_state_value(text) or a Stream of its items.
CursorRuleApply ==
  \E class \in StreamClasses, text \in Texts :
    /\ ret = NoCall
    /\ state_value' = text
    /\ ret' = [call |-> "rule.apply", class |-> class,
               out |-> Apply(Root, StateOf(processor, class, load_state_value(text)))]
    /\ UNCHANGED processor

\* processor.apply_root(stream), the stream as in CursorRuleApply.
CursorApplyRoot ==
  \E class \in StreamClasses, text \in Texts :
    /\ ret = NoCall
    /\ state_value' = text
    /\ ret' = [call |-> "apply_root", class |-> class,
               out |-> apply_rule_to_state(
                         processor, processor.root_rule_name,
                         StateOf(processor, class, load_state_value(text)))]
    /\ UNCHANGED processor

CursorNext ==
  \/ CursorRuleApply
  \/ CursorApplyRoot

CursorSpec == CursorInit /\ [][CursorNext]_vars

(* --------------------- claims about the cursor ------------------------ *)

\* The State the rule of the last call was given.
CursorGiven == StateOf(processor, ret.class, load_state_value(state_value))

\* The items of the given stream from item number k on.
ItemsFrom(k) == SubSeq(CursorGiven.value, k, Len(CursorGiven.value))

\* C27: a successful apply of a rule tree of any variant (Literal, Class,
\* Not, And, Or, ZeroOrMore, OneOrMore, ZeroOrOne, UntilEmpty, Ref), and of
\* the root rule by apply_root, returns a State over a suffix of the items
\* of the State it was given, with the processor and the stream class of
\* that State.
C27_CursorMonotone ==
  ret.call \in {"rule.apply", "apply_root"} /\ Out.kind = "ok" =>
    /\ \E k \in 1..(Len(CursorGiven.value) + 1) : Out.state.value = ItemsFrom(k)
    /\ Out.state = State_with_value(CursorGiven, Out.state.value)

\* A rule with children consumed some items of a stream and left others.
C27_Witness ==
  /\ ret.call = "rule.apply"
  /\ Out.kind = "ok"
  /\ Root.type \in {"And", "Or", "OneOrMore"}
  /\ \E k \in 2..Len(CursorGiven.value) : Out.state.value = ItemsFrom(k)

(* ------------------- claims about rule-name annotation ---------------- *)

RECURSIVE Annotated(_, _)

RECURSIVE AnnotatedInOrder(_, _, _)

RECURSIVE AnnotatedRepeating(_, _)

\* What apply_rule_to_state is about to annotate in the calls made while
\* the children from number i on are applied as And.apply (threaded) or as
\* Or.apply (not threaded) applies them.
AnnotatedInOrder(rule, i, state) ==
  IF i > Len(rule.children) THEN {}
  ELSE LET applied == Apply(rule.children[i], state)
           here == Annotated(rule.children[i], state)
       IN CASE rule.type = "And" /\ applied.kind = "ok" ->
                 here \cup AnnotatedInOrder(rule, i + 1, applied.state)
            [] rule.type = "Or" /\ applied.kind = "error" ->
                 here \cup AnnotatedInOrder(rule, i + 1, state)
            [] OTHER -> here

\* The same for the applications of the child of a repetition; a child that
\* succeeds without consuming is applied to the same state again and again.
AnnotatedRepeating(rule, state) ==
  IF rule.type = "UntilEmpty" /\ Stream_empty(state.value) THEN {}
  ELSE LET applied == Apply(rule.child, state)
           here == Annotated(rule.child, state)
       IN IF /\ applied.kind = "ok"
             /\ applied.state.value # state.value
             /\ rule.type # "ZeroOrOne"
          THEN here \cup AnnotatedRepeating(rule, applied.state)
          ELSE here

\* The outcomes of self.rules[rule_name].apply(state) that
\* apply_rule_to_state has computed and is about to annotate, over all the
\* calls of apply_rule_to_state made while rule.apply(state) runs.
Annotated(rule, state) ==
  CASE rule.type = "Ref" ->
         IF \/ rule.rule_name \notin DOMAIN state.processor.rules
            \/ <<rule.rule_name, state.value>> \in state.stack
         THEN {}
         ELSE LET registered == state.processor.rules[rule.rule_name]
                  called == [state EXCEPT !.stack = @ \cup {<<rule.rule_name, state.value>>}]
                  applied == Apply(registered, called)
              IN (IF applied.kind \in {"ok", "error"} THEN {applied} ELSE {})
                   \cup Annotated(registered, called)
    [] rule.type \in {"And", "Or"} -> AnnotatedInOrder(rule, 1, state)
    [] rule.type \in {"ZeroOrMore", "OneOrMore", "ZeroOrOne", "UntilEmpty"} ->
         AnnotatedRepeating(rule, state)
    [] OTHER -> {}

\* What is annotated in the run of apply_root over the given stream.
RootAnnotated == Annotated(Ref(processor.root_rule_name), Given)

\* The rule name of the Result or Error of an outcome.
NameOf(applied) ==
  IF applied.kind = "ok" THEN applied.result.rule_name ELSE applied.error.rule_name

\* C28: in a run of apply_root over a registry of And, Or, ZeroOrMore,
\* OneOrMore, ZeroOrOne, UntilEmpty, Ref and Literal rules, every Result and
\* every Error that apply_rule_to_state annotates has rule_name = None just
\* before the annotation, and the Result or Error that leaves apply_root
\* carries the root rule's name.
C28_NamesNotOverwritten ==
  ret.call = "apply_root" =>
    /\ \A applied \in RootAnnotated : NameOf(applied) = None
    /\ Out.kind \in {"ok", "error"} => NameOf(Out) = processor.root_rule_name

\* apply_root has crossed two named-rule boundaries: the root rule has
\* succeeded through a Ref to another registered rule, so that a Result and
\* an Error or two Results were annotated.
C28_Witness ==
  /\ ret.call = "apply_root"
  /\ Out.kind = "ok"
  /\ Cardinality(RootAnnotated) >= 2
  /\ \E applied \in RootAnnotated :
       /\ applied.kind = "ok"
       /\ \E i \in DOMAIN applied.result.children :
            \E j \in DOMAIN applied.result.children[i].children :
              applied.result.children[i].children[j].rule_name = OtherName

(* ------------- state machine of a sequence over a choice -------------- *)

\* The alternatives A and B and the sibling C: a Literal or one rule over
\* Literals.
ChoiceParts ==
  Leaves
    \cup {And(<<first, second>>) : first \in Leaves, second \in Leaves}
    \cup {ZeroOrMore(child) : child \in Leaves}
    \cup {ZeroOrOne(child) : child \in Leaves}

\* Processor(RootName, {RootName: And([Or([A, B]), C])}).
ChoiceInit ==
  /\ \E A \in ChoiceParts, B \in ChoiceParts, C \in ChoiceParts :
       processor = Processor(RootName, [name \in {RootName} |-> And(<<Or(<<A, B>>), C>>)])
  /\ state_value = <<>>
  /\ ret = NoCall

ChoiceNext ==
  \/ RuleApply
  \/ ApplyRoot

ChoiceSpec == ChoiceInit /\ [][ChoiceNext]_vars

(* --------------------- claims about ordered choice -------------------- *)

\* The first alternative of the choice, the second, and the sibling that
\* follows the choice.
ChoiceA == Root.children[1].children[1]

ChoiceB == Root.children[1].children[2]

ChoiceC == Root.children[2]

\* What A returns on the given state.
AfterA == Apply(ChoiceA, Given)

\* C29: when the first alternative A of And([Or([A, B]), C]) succeeds on the
\* input, B is not tried: the sequence returns the Results of A and C when C
\* succeeds on what A left, and raises the Error of C when C fails there,
\* also when B followed by C matches the input.
C29_ChoiceCommits ==
  ret.call = "apply" /\ AfterA.kind = "ok" =>
    LET sibling == Apply(ChoiceC, AfterA.state)
    IN /\ sibling.kind = "error" => Out = sibling
       /\ sibling.kind = "ok" =>
            Out = Ok(Result(None, None,
                            <<Result(None, None, <<AfterA.result>>), sibling.result>>),
                     sibling.state)

\* A has succeeded, C has failed after it and the sequence has failed,
\* although B followed by C matches the input.
C29_Witness ==
  /\ ret.call = "apply"
  /\ AfterA.kind = "ok"
  /\ Apply(ChoiceC, AfterA.state).kind = "error"
  /\ Apply(And(<<ChoiceB, ChoiceC>>), Given).kind = "ok"
  /\ Out.kind = "error"

(* ------------------ claims about repetition ending -------------------- *)

\* ZeroOrMore.apply or OneOrMore.apply has been called on the root rule.
RepetitionApplied ==
  ret.call = "rule.apply" /\ Root.type \in {"ZeroOrMore", "OneOrMore"}

\* The States over the suffixes of the given stream.
CursorSuffixes ==
  {State_with_value(CursorGiven, ItemsFrom(k)) : k \in 1..(Len(CursorGiven.value) + 1)}

\* Every successful application of the child of the root rule to a suffix
\* of the given stream consumes at least one item.
ChildConsumes ==
  \A state \in CursorSuffixes :
    LET applied == Apply(Root.child, state)
    IN applied.kind = "ok" => Len(applied.state.value) < Len(state.value)

\* Every application of the child of the root rule to a suffix of the given
\* stream ends.
ChildTerminates ==
  \A state \in CursorSuffixes : Apply(Root.child, state) # Hang

\* C30 as stated: ZeroOrMore.apply and OneOrMore.apply end on every input
\* provided every successful application of the child consumes at least one
\* item.
C30_TerminatesWhenChildConsumes ==
  RepetitionApplied /\ ChildConsumes => Out # Hang

\* C30 as amended: ZeroOrMore.apply and OneOrMore.apply end on every input
\* provided every application of the child ends and every successful one
\* consumes at least one item; they have no progress check, so they do not
\* end when the child succeeds on the given state without consuming.
C30_TerminatesWhenChildTerminatesAndConsumes ==
  RepetitionApplied =>
    /\ ChildTerminates /\ ChildConsumes => Out # Hang
    /\ ( /\ Apply(Root.child, CursorGiven).kind = "ok"
         /\ Apply(Root.child, CursorGiven).state = CursorGiven ) => Out = Hang

\* A repetition whose child always ends and consumes has applied the child
\* at least twice and returned.
C30_Witness ==
  /\ RepetitionApplied
  /\ ChildTerminates
  /\ ChildConsumes
  /\ Out.kind = "ok"
  /\ Len(Out.result.children) >= 2
  /\ Out.state # CursorGiven

\* A repetition has not ended because its child succeeded without consuming.
C30_WitnessNoProgress ==
  /\ RepetitionApplied
  /\ Apply(Root.child, CursorGiven).kind = "ok"
  /\ Apply(Root.child, CursorGiven).state = CursorGiven
  /\ Out = Hang

(* ------------------------------- parser ------------------------------- *)

\* parser.Parser: the rules of a grammar, the name of its root rule and the
\* Lexer that makes the Tokens.
Parser(root_rule_name, rules, lexer) ==
  [root_rule_name |-> root_rule_name, rules |-> rules, lexer |-> lexer]

\* The element of a set of one element. A call is bound to a name once by
\* Only({... name ... : name \in {call}}).
Only(set) == CHOOSE element \in set : TRUE

\* Parser.apply: the text is lexed and the root rule is applied to the
\* stream of its Tokens; the Result is returned.
Parser_apply(self, input) ==
  Only({IF tokens.kind # "ok"
        THEN tokens
        ELSE Only({IF applied.kind = "ok" THEN Returns(applied.result) ELSE applied :
                     applied \in {apply_root(Processor(self.root_rule_name, self.rules),
                                             tokens.value)}}) :
          tokens \in {Lexer_apply(self.lexer, input)}})

\* Result.get_value.
get_value(self) ==
  IF self.value = None THEN Uncaught("AssertionError") ELSE Returns(self.value)

(* ------------------------------- loader ------------------------------- *)

\* load_lexer_rule: the operators of the language of lexer rules.
operators == <<"(", ")", "[", "-", "]", "+", "?", "*", "!", "^", "|", "\\">>

\* load_lexer_rule: operator_rules, in the order of its keys.
operator_rules == [i \in DOMAIN operators |-> <<operators[i], lexer_Literal(operators[i])>>]

\* load_lexer_rule: the Lexer of the language of lexer rules.
lexer_lexer ==
  Lexer(Append(operator_rules,
               <<"literal", Not(Or([i \in DOMAIN operators |-> operator_rules[i][2]]))>>))

\* load_lexer_rule: the Parser of the language of lexer rules.
lexer_parser ==
  Parser(
    "root",
    [name \in {"root", "rule", "operation", "and", "zero_or_more", "one_or_more",
               "zero_or_one", "until_empty", "not", "operand", "unary_operand",
               "class", "or", "special", "special_value"} |->
       CASE name = "root" -> UntilEmpty(Ref("rule"))
         [] name = "rule" -> Or(<<Ref("operation"), Ref("operand")>>)
         [] name = "operation" ->
              Or(<<Ref("zero_or_more"), Ref("one_or_more"), Ref("zero_or_one"),
                   Ref("until_empty"), Ref("not")>>)
         [] name = "and" ->
              And(<<parser_Literal("("), OneOrMore(Ref("rule")), parser_Literal(")")>>)
         [] name = "zero_or_more" -> And(<<Ref("operand"), parser_Literal("*")>>)
         [] name = "one_or_more" -> And(<<Ref("operand"), parser_Literal("+")>>)
         [] name = "zero_or_one" -> And(<<Ref("operand"), parser_Literal("?")>>)
         [] name = "until_empty" -> And(<<Ref("operand"), parser_Literal("!")>>)
         [] name = "not" -> And(<<parser_Literal("^"), Ref("unary_operand")>>)
         [] name = "operand" -> Or(<<Ref("and"), Ref("or"), Ref("unary_operand")>>)
         [] name = "unary_operand" ->
              Or(<<parser_Literal("literal"), Ref("class"), Ref("special")>>)
         [] name = "class" ->
              And(<<parser_Literal("["), parser_Literal("literal"), parser_Literal("-"),
                    parser_Literal("literal"), parser_Literal("]")>>)
         [] name = "or" ->
              And(<<parser_Literal("("), Ref("rule"),
                    OneOrMore(And(<<parser_Literal("|"), Ref("rule")>>)),
                    parser_Literal(")")>>)
         [] name = "special" -> And(<<parser_Literal("\\"), Ref("special_value")>>)
         [] name = "special_value" -> parser_Any],
    lexer_lexer)

RECURSIVE load_lexer_rule_load_rule(_)

\* [load_rule(rule) for rule in results] from result number i on.
RECURSIVE load_lexer_rule_load_rules(_, _, _)
load_lexer_rule_load_rules(results, i, children) ==
  IF i > Len(results)
  THEN Returns(children)
  ELSE Only({IF rule.kind = "ok"
             THEN load_lexer_rule_load_rules(results, i + 1, Append(children, rule.value))
             ELSE rule :
               rule \in {load_lexer_rule_load_rule(results[i])}})

\* load_lexer_rule.load_literal.
load_lexer_rule_load_literal(result) ==
  IF result.rule_name = "literal" /\ result.value # None
  THEN Returns(lexer_Literal(result.value))
  ELSE Uncaught("AssertionError")

\* load_lexer_rule.load_and.
load_lexer_rule_load_and(result) ==
  Only({IF children.kind = "ok" THEN Returns(And(children.value)) ELSE children :
          children \in {load_lexer_rule_load_rules(
                          where(result, rule_name_is("rule")).children, 1, <<>>)}})

\* load_lexer_rule.load_or.
load_lexer_rule_load_or(result) ==
  Only({IF children.kind = "ok" THEN Returns(Or(children.value)) ELSE children :
          children \in {load_lexer_rule_load_rules(
                          where(result, rule_name_is("rule")).children, 1, <<>>)}})

\* load_lexer_rule.load_operation(factory)(result); factory is the class of
\* the rule made, given by the type of its instances.
load_lexer_rule_load_operation(factory, result) ==
  Only({IF operand.kind # "ok"
        THEN operand
        ELSE Only({IF rule.kind = "ok"
                   THEN Returns([type |-> factory, child |-> rule.value])
                   ELSE rule :
                     rule \in {load_lexer_rule_load_rule(operand.value)}}) :
          operand \in {where_one(result, rule_name_in({"operand", "unary_operand"}))}})

\* load_lexer_rule.load_class.
load_lexer_rule_load_class(result) ==
  LET literals == where(result, rule_name_is("literal")).children
  IN IF Len(literals) # 2
     THEN Uncaught("ValueError")
     ELSE IF literals[1].value # None /\ literals[2].value # None
          THEN Returns(lexer_Class(literals[1].value, literals[2].value))
          ELSE Uncaught("AssertionError")

\* load_lexer_rule.load_special.
load_lexer_rule_load_special(result) ==
  Only({IF special_value.kind # "ok"
        THEN special_value
        ELSE Only({IF value.kind # "ok"
                   THEN value
                   ELSE CASE value.value = "n" -> Returns(lexer_Literal("\n"))
                          [] value.value = "w" ->
                               Returns(Or(<<lexer_Literal(" "), lexer_Literal("\n"),
                                            lexer_Literal("\t")>>))
                          [] OTHER -> Returns(lexer_Literal(value.value)) :
                     value \in {get_value(special_value.value)}}) :
          special_value \in {where_one(result, rule_name_is("special_value"))}})

\* load_lexer_rule.load_rule, with the functions of rule_funcs.
load_lexer_rule_load_rule(result) ==
  Only({IF rule_result.kind # "ok"
        THEN rule_result
        ELSE Only({CASE found.rule_name = "literal" -> load_lexer_rule_load_literal(found)
                     [] found.rule_name = "and" -> load_lexer_rule_load_and(found)
                     [] found.rule_name = "or" -> load_lexer_rule_load_or(found)
                     [] found.rule_name = "zero_or_more" ->
                          load_lexer_rule_load_operation("ZeroOrMore", found)
                     [] found.rule_name = "one_or_more" ->
                          load_lexer_rule_load_operation("OneOrMore", found)
                     [] found.rule_name = "zero_or_one" ->
                          load_lexer_rule_load_operation("ZeroOrOne", found)
                     [] found.rule_name = "until_empty" ->
                          load_lexer_rule_load_operation("UntilEmpty", found)
                     [] found.rule_name = "not" ->
                          load_lexer_rule_load_operation("Not", found)
                     [] found.rule_name = "class" -> load_lexer_rule_load_class(found)
                     [] found.rule_name = "special" -> load_lexer_rule_load_special(found) :
                     found \in {rule_result.value}}) :
          rule_result \in
            {where_one(result,
                       rule_name_in({"literal", "and", "or", "zero_or_more", "one_or_more",
                                     "zero_or_one", "until_empty", "not", "class",
                                     "special"}))}})

\* loader.load_lexer_rule(input).
load_lexer_rule(input) ==
  Only({IF result.kind = "ok" THEN load_lexer_rule_load_and(result.value) ELSE result :
          result \in {Parser_apply(lexer_parser, input)}})

\* The dict comprehension of load_lexer from item number i on. `rules` is
\* the mapping in the order of its keys, a sequence of <<name, text>> pairs.
RECURSIVE load_lexer_rules(_, _, _)
load_lexer_rules(rules, i, loaded) ==
  IF i > Len(rules)
  THEN Returns(loaded)
  ELSE Only({IF rule.kind = "ok"
             THEN load_lexer_rules(rules, i + 1,
                                   Append(loaded, <<rules[i][1], rule.value>>))
             ELSE rule :
               rule \in {load_lexer_rule(rules[i][2])}})

\* loader.load_lexer(rules).
load_lexer(rules) ==
  Only({IF loaded.kind = "ok" THEN Returns(Lexer(loaded.value)) ELSE loaded :
          loaded \in {load_lexer_rules(rules, 1, <<>>)}})

\* load_parser: the rules of the Lexer of the language of grammars, in the
\* order of the keys of the dict.
parser_lexer_rules ==
  << <<"_ws", <<"\\", "w", "+">> >>,
     <<"=", <<"=">> >>,
     <<";", <<";">> >>,
     <<"->", <<"\\", "-", ">">> >>,
     <<"|", <<"\\", "|">> >>,
     <<"(", <<"\\", "(">> >>,
     <<")", <<"\\", ")">> >>,
     <<"*", <<"\\", "*">> >>,
     <<"+", <<"\\", "+">> >>,
     <<"?", <<"\\", "?">> >>,
     <<"!", <<"\\", "!">> >>,
     <<"id", <<"(", "_", "|", "[", "a", "-", "z", "]", "|", "[", "A", "-", "Z", "]",
               "|", "[", "0", "-", "9", "]", ")", "+">> >>,
     <<"str", <<"\"", "(", "^", "\"", ")", "+", "\"">> >> >>

\* load_parser: the rules of the Parser of the language of grammars.
parser_parser_rules ==
  [name \in {"root", "line", "rule_decl", "lexer_rule_decl", "parser_rule_decl",
             "parser_rule_decl_name", "rule", "ref", "and", "operand",
             "unary_operand", "or", "paren_rule", "unary_operation", "zero_or_more",
             "one_or_more", "zero_or_one", "until_empty", "lexer_literal"} |->
     CASE name = "root" -> UntilEmpty(Ref("line"))
       [] name = "line" -> And(<<Ref("rule_decl"), parser_Literal(";")>>)
       [] name = "rule_decl" -> Or(<<Ref("lexer_rule_decl"), Ref("parser_rule_decl")>>)
       [] name = "lexer_rule_decl" ->
            And(<<parser_Literal("id"), parser_Literal("="), parser_Literal("str")>>)
       [] name = "parser_rule_decl" ->
            And(<<Ref("parser_rule_decl_name"), parser_Literal("->"), Ref("rule")>>)
       [] name = "parser_rule_decl_name" -> parser_Literal("id")
       [] name = "rule" -> Or(<<Ref("or"), Ref("and"), Ref("operand")>>)
       [] name = "ref" -> parser_Literal("id")
       [] name = "and" -> And(<<Ref("operand"), OneOrMore(Ref("operand"))>>)
       [] name = "operand" -> Or(<<Ref("unary_operation"), Ref("unary_operand")>>)
       [] name = "unary_operand" ->
            Or(<<Ref("ref"), Ref("paren_rule"), Ref("lexer_literal")>>)
       [] name = "or" ->
            And(<<Ref("operand"),
                  OneOrMore(And(<<parser_Literal("|"), Ref("operand")>>))>>)
       [] name = "paren_rule" ->
            And(<<parser_Literal("("), Ref("rule"), parser_Literal(")")>>)
       [] name = "unary_operation" ->
            Or(<<Ref("zero_or_more"), Ref("one_or_more"), Ref("zero_or_one"),
                 Ref("until_empty")>>)
       [] name = "zero_or_more" -> And(<<Ref("unary_operand"), parser_Literal("*")>>)
       [] name = "one_or_more" -> And(<<Ref("unary_operand"), parser_Literal("+")>>)
       [] name = "zero_or_one" -> And(<<Ref("unary_operand"), parser_Literal("?")>>)
       [] name = "until_empty" -> And(<<Ref("unary_operand"), parser_Literal("!")>>)
       [] name = "lexer_literal" -> parser_Literal("str")]

\* The str of a sequence of characters.
RECURSIVE join(_)
join(chars) == IF chars = <<>> THEN "" ELSE chars[1] \o join(Tail(chars))

\* The characters of the value of a Token lexed from input: the value is a
\* slice of the text.
list_of(value, input) ==
  CHOOSE chars \in {SubSeq(input, i, j) : i \in 1..(Len(input) + 1), j \in 0..Len(input)} :
    join(chars) = value

\* str.lstrip(c) and str.strip(c), on the characters of the str.
RECURSIVE lstrip(_, _)
lstrip(chars, c) ==
  IF chars # <<>> /\ chars[1] = c THEN lstrip(Tail(chars), c) ELSE chars

RECURSIVE strip(_, _)
strip(chars, c) ==
  Only({IF stripped # <<>> /\ stripped[Len(stripped)] = c
        THEN strip(SubSeq(stripped, 1, Len(stripped) - 1), c)
        ELSE stripped :
          stripped \in {lstrip(chars, c)}})

\* result.where_one(rule_name_is(rule_name)).get_value().value: the Token
\* a Result carries is written as its value.
token_value(result, rule_name) ==
  Only({IF found.kind = "ok" THEN get_value(found.value) ELSE found :
          found \in {where_one(result, rule_name_is(rule_name))}})

\* The variables of load_parser that its inner functions read and assign:
\* input, lexer_rules (an OrderedDict, as the sequence of its <<name, rule>>
\* items), parser_rules and root_rule_name.
Env(input, lexer_rules, parser_rules, root_rule_name) ==
  [input |-> input, lexer_rules |-> lexer_rules, parser_rules |-> parser_rules,
   root_rule_name |-> root_rule_name]

\* An inner function of load_parser has returned value and left env.
Loaded(value, env) == [kind |-> "ok", value |-> value, env |-> env]

\* The keys of lexer_rules.
lexer_rule_names(env) == {env.lexer_rules[i][1] : i \in DOMAIN env.lexer_rules}

\* lexer_rules[name].
lexer_rule(env, name) ==
  env.lexer_rules[CHOOSE i \in DOMAIN env.lexer_rules : env.lexer_rules[i][1] = name][2]

\* load_parser.load_lexer_literal.
load_lexer_literal(result, env) ==
  Only({IF str.kind # "ok"
        THEN str
        ELSE Only({Only({IF rule.kind # "ok"
                         THEN rule
                         ELSE IF value \in lexer_rule_names(env)
                              THEN IF lexer_rule(env, value) = rule.value
                                   THEN Loaded(parser_Literal(value), env)
                                   ELSE Uncaught("AssertionError")
                              ELSE Loaded(parser_Literal(value),
                                          [env EXCEPT
                                             !.lexer_rules =
                                               <<<<value, rule.value>>>> \o @]) :
                           value \in {join(chars)}, rule \in {load_lexer_rule(chars)}}) :
                     chars \in {strip(list_of(str.value, env.input), "\"")}}) :
          str \in {token_value(result, "str")}})

\* load_parser.load_ref.
load_ref(result, env) ==
  Only({IF rule_name.kind # "ok"
        THEN rule_name
        ELSE IF rule_name.value \in lexer_rule_names(env)
             THEN Loaded(parser_Literal(rule_name.value), env)
             ELSE Loaded(Ref(rule_name.value), env) :
          rule_name \in {token_value(result, "id")}})

RECURSIVE load_parser_load_rule(_, _)

\* [load_rule(rule) for rule in results] from result number i on.
RECURSIVE load_parser_load_rules(_, _, _, _)
load_parser_load_rules(results, i, children, env) ==
  IF i > Len(results)
  THEN Loaded(children, env)
  ELSE Only({IF rule.kind = "ok"
             THEN load_parser_load_rules(results, i + 1, Append(children, rule.value),
                                         rule.env)
             ELSE rule :
               rule \in {load_parser_load_rule(results[i], env)}})

\* load_parser.load_unary_operation(factory)(result); factory is the class
\* of the rule made, given by the type of its instances.
load_unary_operation(factory, result, env) ==
  Only({IF unary_operand.kind # "ok"
        THEN unary_operand
        ELSE Only({IF rule.kind = "ok"
                   THEN Loaded([type |-> factory, child |-> rule.value], rule.env)
                   ELSE rule :
                     rule \in {load_parser_load_rule(unary_operand.value, env)}}) :
          unary_operand \in {where_one(result, rule_name_is("unary_operand"))}})

\* load_parser.load_operation(factory)(result), for load_or and load_and.
load_parser_load_operation(factory, result, env) ==
  Only({IF children.kind = "ok"
        THEN Loaded([type |-> factory, children |-> children.value], children.env)
        ELSE children :
          children \in {load_parser_load_rules(
                          where(result, rule_name_is("operand")).children, 1, <<>>, env)}})

\* load_parser.load_rule, with the functions of rule_loaders.
load_parser_load_rule(result, env) ==
  Only({IF rule_result.kind # "ok"
        THEN rule_result
        ELSE Only({CASE found.rule_name = "ref" -> load_ref(found, env)
                     [] found.rule_name = "and" ->
                          load_parser_load_operation("And", found, env)
                     [] found.rule_name = "or" ->
                          load_parser_load_operation("Or", found, env)
                     [] found.rule_name = "zero_or_more" ->
                          load_unary_operation("ZeroOrMore", found, env)
                     [] found.rule_name = "one_or_more" ->
                          load_unary_operation("OneOrMore", found, env)
                     [] found.rule_name = "zero_or_one" ->
                          load_unary_operation("ZeroOrOne", found, env)
                     [] found.rule_name = "until_empty" ->
                          load_unary_operation("UntilEmpty", found, env)
                     [] found.rule_name = "lexer_literal" -> load_lexer_literal(found, env) :
                     found \in {rule_result.value}}) :
          rule_result \in
            {where_one(result,
                       rule_name_in({"ref", "and", "or", "zero_or_more", "one_or_more",
                                     "zero_or_one", "until_empty", "lexer_literal"}))}})

\* load_parser.load_parser_rule_decl.
load_parser_rule_decl(result, env) ==
  Only({IF decl_name.kind # "ok"
        THEN decl_name
        ELSE Only({IF rule_name.kind # "ok"
                   THEN rule_name
                   ELSE IF \/ rule_name.value \in lexer_rule_names(env)
                           \/ rule_name.value \in DOMAIN env.parser_rules
                        THEN Uncaught("AssertionError")
                        ELSE Only({IF rule_result.kind # "ok"
                                   THEN rule_result
                                   ELSE Only({IF rule.kind # "ok"
                                              THEN rule
                                              ELSE Loaded(None,
                                                     [rule.env EXCEPT
                                                        !.parser_rules =
                                                          [name \in DOMAIN @
                                                                      \cup {rule_name.value} |->
                                                             IF name = rule_name.value
                                                             THEN rule.value
                                                             ELSE @[name]],
                                                        !.root_rule_name =
                                                          IF @ = None
                                                          THEN rule_name.value
                                                          ELSE @]) :
                                                rule \in {load_parser_load_rule(
                                                            rule_result.value, env)}}) :
                                     rule_result \in
                                       {where_one(result, rule_name_is("rule"))}}) :
                     rule_name \in {token_value(decl_name.value, "id")}}) :
          decl_name \in {where_one(result, rule_name_is("parser_rule_decl_name"))}})

\* load_parser.load_lexer_rule_decl.
load_lexer_rule_decl(result, env) ==
  Only({IF rule_name.kind # "ok"
        THEN rule_name
        ELSE IF \/ rule_name.value \in lexer_rule_names(env)
                \/ rule_name.value \in DOMAIN env.parser_rules
             THEN Uncaught("AssertionError")
             ELSE Only({IF str.kind # "ok"
                        THEN str
                        ELSE Only({IF rule.kind # "ok"
                                   THEN rule
                                   ELSE Loaded(None,
                                          [env EXCEPT
                                             !.lexer_rules =
                                               Append(@, <<rule_name.value, rule.value>>)]) :
                                     rule \in {load_lexer_rule(
                                                 strip(list_of(str.value, env.input),
                                                       "\""))}}) :
                          str \in {token_value(result, "str")}}) :
          rule_name \in {token_value(result, "id")}})

\* load_parser.load_rule_decl.
load_rule_decl(result, env) ==
  Only({IF rule_result.kind # "ok"
        THEN rule_result
        ELSE IF rule_result.value.rule_name = "lexer_rule_decl"
             THEN load_lexer_rule_decl(rule_result.value, env)
             ELSE load_parser_rule_decl(rule_result.value, env) :
          rule_result \in
            {where_one(result, rule_name_in({"lexer_rule_decl", "parser_rule_decl"}))}})

\* The for loop of load_parser over the rule_decl Results from number i on.
\* The message of the Error also prints the Result.
RECURSIVE load_rule_decls(_, _, _)
load_rule_decls(results, i, env) ==
  IF i > Len(results)
  THEN Loaded(None, env)
  ELSE Only({CASE loaded.kind = "ok" -> load_rule_decls(results, i + 1, loaded.env)
               [] loaded.kind = "error" ->
                    Raise(Error(None, "failed to rule_decl", <<loaded.error>>))
               [] OTHER -> loaded :
               loaded \in {load_rule_decl(results[i], env)}})

\* loader.load_parser(input).
load_parser(input) ==
  Only({CASE parser_lexer.kind = "error" ->
               Raise(Error(None, "failed to load parser lexer", <<parser_lexer.error>>))
          [] parser_lexer.kind = "ok" ->
               Only({CASE result.kind = "error" ->
                            Raise(Error(None, "failed to load parser", <<result.error>>))
                       [] result.kind = "ok" ->
                            Only({IF loaded.kind # "ok"
                                  THEN loaded
                                  ELSE IF loaded.env.root_rule_name = None
                                       THEN Uncaught("AssertionError")
                                       ELSE Returns(Parser(loaded.env.root_rule_name,
                                                           loaded.env.parser_rules,
                                                           Lexer(loaded.env.lexer_rules))) :
                                    loaded \in
                                      {load_rule_decls(
                                         where(result.value,
                                               rule_name_is("rule_decl")).children,
                                         1, Env(input, <<>>, <<>>, None))}})
                       [] OTHER -> result :
                       result \in
                         {Parser_apply(Parser("root", parser_parser_rules,
                                              parser_lexer.value),
                                       input)}})
          [] OTHER -> parser_lexer :
          parser_lexer \in {load_lexer(parser_lexer_rules)}})

(* --------------------- state machine of the loader -------------------- *)

\* The most declarations a grammar text has.
MaxDecls == 3

\* The names the declarations give and the texts of their literals.
DeclNames == {"a", "b"}

\* name = "text";
LexerRuleDecl(name, text) == [decl |-> "lexer_rule_decl", name |-> name, text |-> text]

\* name -> other;  and  name -> "text";
ParserRuleDecl(name, operand, text) ==
  [decl |-> "parser_rule_decl", name |-> name, operand |-> operand, text |-> text]

Decls ==
  {LexerRuleDecl(name, text) : name \in DeclNames, text \in DeclNames}
    \cup {ParserRuleDecl(name, operand, text) :
            name \in DeclNames, operand \in {"ref", "lexer_literal"}, text \in DeclNames}

\* The declarations of a grammar text, in the order of its lines.
Grammars == UNION {[1..n -> Decls] : n \in 0..MaxDecls}

\* The line of a declaration.
DeclText(decl) ==
  CASE decl.decl = "lexer_rule_decl" ->
         <<decl.name, " ", "=", " ", "\"", decl.text, "\"", ";", "\n">>
    [] decl.operand = "ref" ->
         <<decl.name, " ", "-", ">", " ", decl.text, ";", "\n">>
    [] OTHER ->
         <<decl.name, " ", "-", ">", " ", "\"", decl.text, "\"", ";", "\n">>

\* The text of a grammar.
RECURSIVE GrammarText(_)
GrammarText(grammar) ==
  IF grammar = <<>> THEN <<>> ELSE DeclText(Head(grammar)) \o GrammarText(Tail(grammar))

\* The texts of lexer rules.
RuleTexts == UNION {[1..n -> {"x", "*", "\\"}] : n \in 0..MaxLen}

\* The mappings load_lexer is given, in the order of their keys.
RuleMappings ==
  {<<>>}
    \cup {<<<<"a", first>>>> : first \in RuleTexts}
    \cup {<<<<"a", first>>, <<"b", second>>>> :
            first \in {<<>>, <<"x">>}, second \in {<<>>, <<"x">>}}

LoaderInit ==
  /\ processor = None
  /\ state_value = <<>>
  /\ ret = NoCall

\* loader.load_parser(input) on the text of a grammar.
LoadParser ==
  \E grammar \in Grammars :
    /\ ret = NoCall
    /\ state_value' = GrammarText(grammar)
    /\ ret' = [call |-> "load_parser", grammar |-> grammar,
               out |-> load_parser(GrammarText(grammar))]
    /\ UNCHANGED processor

\* loader.load_lexer_rule(input).
LoadLexerRule ==
  \E input \in RuleTexts :
    /\ ret = NoCall
    /\ state_value' = input
    /\ ret' = [call |-> "load_lexer_rule", out |-> load_lexer_rule(input)]
    /\ UNCHANGED processor

\* loader.load_lexer(rules).
LoadLexer ==
  \E rules \in RuleMappings :
    /\ ret = NoCall
    /\ state_value' = rules
    /\ ret' = [call |-> "load_lexer", out |-> load_lexer(rules)]
    /\ UNCHANGED processor

LoaderNext ==
  \/ LoadParser
  \/ LoadLexerRule
  \/ LoadLexer

LoaderSpec == LoaderInit /\ [][LoaderNext]_vars

(* ----------------------- claims about the loader ---------------------- *)

\* The declarations of the grammar that load_parser was given.
GrammarGiven == ret.grammar

\* The parser-rule declarations of the grammar, in the order of the text.
IsParserRuleDecl(decl) == decl.decl = "parser_rule_decl"

ParserRuleDecls == SelectSeq(GrammarGiven, IsParserRuleDecl)

\* The name declaration number i gives to a rule, and the name of the lexer
\* rule its quoted literal makes.
DeclaresName(i, name) == GrammarGiven[i].name = name

QuotesName(i, name) ==
  /\ IsParserRuleDecl(GrammarGiven[i])
  /\ GrammarGiven[i].operand = "lexer_literal"
  /\ GrammarGiven[i].text = name

\* The grammar gives one name to two rules: two declarations of the name, or
\* a parser rule of the name and a quoted literal of that text, in either
\* order.
DuplicateName ==
  \E name \in DeclNames :
    \/ \E i, j \in DOMAIN GrammarGiven :
         i # j /\ DeclaresName(i, name) /\ DeclaresName(j, name)
    \/ \E i, j \in DOMAIN GrammarGiven :
         /\ IsParserRuleDecl(GrammarGiven[i])
         /\ DeclaresName(i, name)
         /\ QuotesName(j, name)

\* A quoted literal and a lexer-rule declaration meet under one name.
LiteralMeetsLexerRule ==
  \E i, j \in DOMAIN GrammarGiven :
    /\ ~IsParserRuleDecl(GrammarGiven[i])
    /\ QuotesName(j, GrammarGiven[i].name)

\* load_parser has rejected the text: it has raised an Error or failed one
\* of its assertions.
Rejected == Out.kind = "error" \/ Out = Uncaught("AssertionError")

\* C23: load_parser returns a Parser whose root rule is the name of the
\* first `name -> ...;` declaration of the text, whatever lexer-rule
\* declarations precede it and whatever parser rules follow; a text with no
\* parser-rule declaration is rejected.
C23_RootIsFirstParserRule ==
  ret.call = "load_parser" =>
    /\ ParserRuleDecls # <<>> /\ ~DuplicateName /\ ~LiteralMeetsLexerRule =>
         /\ Out.kind = "ok"
         /\ Out.value.root_rule_name = ParserRuleDecls[1].name
    /\ ParserRuleDecls = <<>> => Rejected

\* C24: load_parser rejects every text that gives one name to two rules.
C24_DuplicateNamesRejected ==
  ret.call = "load_parser" /\ DuplicateName => Rejected

\* The text given to load_lexer_rule is a lexer-rule expression of the
\* alphabet of RuleTexts: literals, each followed by at most one `*`.
IsRuleExpression(input) ==
  /\ input # <<>>
  /\ \A i \in DOMAIN input :
       /\ input[i] # "\\"
       /\ input[i] = "*" => i > 1 /\ input[i - 1] = "x"

\* C22: load_lexer_rule yields a Rule tree for a lexer-rule expression, and
\* compiling the same string again yields a structurally equal tree.
C22_LoadLexerRuleIdempotent ==
  ret.call = "load_lexer_rule" /\ IsRuleExpression(state_value) =>
    /\ Out.kind = "ok"
    /\ load_lexer_rule(state_value) = Out
====
